---- MODULE Spec2Model ----
(***************************************************************************)
(* HelloTriangleApplication (sources/01_VulkanTutorial/01_helloTriangle/   *)
(* main.cpp): the frame loop, the swapchain lifecycle and the per-slot     *)
(* CPU/GPU synchronisation.                                                *)
(*                                                                         *)
(* One controlling thread runs Run(): InitVulkan, MainLoop (glfwPollEvents *)
(* + DrawFrame), Cleanup.  Its position is pc.  The device and the         *)
(* presentation engine are the environment: they execute the queued        *)
(* submissions and presentation requests and signal semaphores and fences  *)
(* asynchronously, as the Vulkan API allows.  The window system resizes    *)
(* the window asynchronously; GLFW delivers the callbacks only inside      *)
(* glfwPollEvents / glfwWaitEvents.                                        *)
(*                                                                         *)
(* What the environment may do is what the Vulkan and GLFW contracts       *)
(* allow: vkAcquireNextImageKHR may hand out any image index of the chain  *)
(* and its semaphore is signaled later; each queue executes its operations *)
(* in submission order, an operation starting once its wait semaphore is   *)
(* signaled; vkDeviceWaitIdle returns when both queues are empty; every    *)
(* call that can fail may fail.  An exception leaves Run and ends the      *)
(* process ("fatal"); undefined behaviour may also end it ("crashed").     *)
(***************************************************************************)
EXTENDS Integers, Sequences, FiniteSets, TLC

\* constexpr int MAX_FRAMES_IN_FLIGHT = 2;
MAX_FRAMES_IN_FLIGHT == 2
\* constexpr uint32_t WIDTH = 800; HEIGHT = 600;
WIDTH == 800
HEIGHT == 600

\* Bounds of the model.
\* The largest number of images vkGetSwapchainImagesKHR reports for a chain.
MaxImages == 2
\* vkAcquireNextImageKHR hands out no further image while this many
\* presentation requests are still queued (it blocks: timeout UINT64_MAX).
MaxPendingPresents == 3

Slots == 0 .. (MAX_FRAMES_IN_FLIGHT - 1)
ImageCounts == 1 .. MaxImages
\* Framebuffer sizes the window can have: minimized (0x0) and restored.
WindowSizes == {<<0, 0>>, <<WIDTH, HEIGHT>>}

VARIABLES
    pc,                     \* position of the controlling thread
    caller,                 \* who called RecreateSwapChain / CleanupSwapChain
    m_currentFrame,         \* size_t m_currentFrame
    m_framebufferResized,   \* bool m_framebufferResized
    imageIndex,             \* DrawFrame: uint32_t imageIndex
    result,                 \* DrawFrame: VkResult result
    acquireResult,          \* what result held after vkAcquireNextImageKHR
    size,                   \* RecreateSwapChain: int width, height
    did,                    \* calls made in this iteration (+ "afterRecreate")
    args,                   \* what DrawFrame passed to the calls of this iteration
    m_swapChain,            \* VkSwapchainKHR handle: "null", "live", "destroyed"
    m_swapChainImages,      \* number of images retrieved from the chain
    m_swapChainExtent,      \* VkExtent2D m_swapChainExtent
    m_swapChainImageFormat, \* VkFormat m_swapChainImageFormat
    colorAttachmentFormat,  \* colorAttachment.format m_renderPass was created with
    m_swapChainImageViews,  \* vector of view handles, each "live"/"destroyed"
    m_swapChainFramebuffers,\* vector of framebuffer handles
    m_commandBuffers,       \* vector of command buffer handles
    m_sync,                 \* per slot: the two semaphores and the fence
    m_objects,              \* the remaining long-lived objects
    fences,                 \* device: fence of slot i is signaled
    sems,                   \* device: binary semaphore is signaled
    frames,                 \* device: the frames in flight, oldest first
    fbSize,                 \* window system: actual framebuffer size
    resizePending,          \* GLFW: a size event waits for event processing
    shouldClose,            \* GLFW: the window's should-close flag
    call,                   \* a member function called on its own: its inputs
    ret                     \* <<>> or <<the value that call returned>>

vars == <<pc, caller, m_currentFrame, m_framebufferResized, imageIndex, result,
          acquireResult,
          size, did, args, m_swapChain, m_swapChainImages, m_swapChainExtent,
          m_swapChainImageFormat, colorAttachmentFormat,
          m_swapChainImageViews, m_swapChainFramebuffers, m_commandBuffers,
          m_sync, m_objects, fences, sems, frames,
          fbSize, resizePending, shouldClose, call, ret>>

LongLived == {"window", "instance", "surface", "device", "renderPass",
              "pipelineLayout", "pipeline", "commandPool"}

ImageAvailable(i) == <<"imageAvailable", i>>
RenderFinished(i) == <<"renderFinished", i>>
Semaphores == {ImageAvailable(i) : i \in Slots} \cup {RenderFinished(i) : i \in Slots}
\* What a frame holds while no batch / no request of it names a semaphore,
\* a fence or a command buffer.
NoSemaphore == <<"none", 0>>
NoFence == MAX_FRAMES_IN_FLIGHT
NoCommandBuffer == MaxImages

\* The process has ended: Run returned, an exception reached main, or the
\* process died.
Terminated == pc \in {"done", "fatal", "crashed"}

\* Nothing was passed yet: no command buffer reset, recorded or submitted,
\* no commands recorded, no image presented.
NoIndex == MaxImages
NoArgs == [resetCb |-> NoIndex, recordCb |-> NoIndex, commands |-> <<>>,
           submitCb |-> NoIndex, presentImage |-> NoIndex]

Range(s) == {s[i] : i \in 1 .. Len(s)}
Fill(n, v) == [i \in 1 .. n |-> v]

(***************************************************************************)
(* Init: the application object after construction (member initialisers).  *)
(***************************************************************************)
InitApplication ==
    /\ pc = "init"
    /\ caller = "none"
    /\ m_currentFrame = 0
    /\ m_framebufferResized = FALSE
    /\ imageIndex = 0
    /\ result = "SUCCESS"
    /\ acquireResult = "none"
    /\ size = <<0, 0>>
    /\ did = {}
    /\ args = NoArgs
    /\ m_swapChain = "null"
    /\ m_swapChainImages = 0
    /\ m_swapChainExtent = <<0, 0>>
    /\ m_swapChainImageFormat = "UNDEFINED"
    /\ colorAttachmentFormat = "UNDEFINED"
    /\ m_swapChainImageViews = <<>>
    /\ m_swapChainFramebuffers = <<>>
    /\ m_commandBuffers = <<>>
    /\ m_sync = [i \in Slots |-> "null"]
    /\ m_objects = [o \in LongLived |-> "null"]
    /\ fences = [i \in Slots |-> FALSE]
    /\ sems = [s \in Semaphores |-> FALSE]
    /\ frames = <<>>
    /\ fbSize = <<WIDTH, HEIGHT>>
    /\ resizePending = FALSE
    /\ shouldClose = FALSE

\* No member function is called on its own.
NoCall == [fn |-> "none"]

Init ==
    /\ InitApplication
    /\ call = NoCall
    /\ ret = <<>>

\* The surface formats a surface may offer.
SurfaceFormats ==
    [format : {"UNDEFINED", "B8G8R8A8_UNORM", "R8G8B8A8_UNORM"},
     colorSpace : {"SRGB_NONLINEAR", "DISPLAY_P3_NONLINEAR"}]

\* The format the application prefers.
PreferredFormat ==
    [format |-> "B8G8R8A8_UNORM", colorSpace |-> "SRGB_NONLINEAR"]

\* The loop of ChooseSwapSurfaceFormat from the i-th offered format; 0
\* stands for "no entry matched".
RECURSIVE FindPreferredFormat(_, _)
FindPreferredFormat(availableFormats, i) ==
    IF i > Len(availableFormats) THEN 0
    ELSE IF availableFormats[i].format = "B8G8R8A8_UNORM"
            /\ availableFormats[i].colorSpace = "SRGB_NONLINEAR"
    THEN i
    ELSE FindPreferredFormat(availableFormats, i + 1)

\* Fault: the first offered format is returned whatever the list holds.
ChooseFirstFormat(availableFormats) == availableFormats[1]

\* ChooseSwapSurfaceFormat, for a list that is not empty (front() of an
\* empty list is undefined; IsDeviceSuitable rejects such a device).
ChooseSwapSurfaceFormat(availableFormats) ==
    IF Len(availableFormats) = 1 /\ availableFormats[1].format = "UNDEFINED"
    THEN PreferredFormat
    ELSE LET found == FindPreferredFormat(availableFormats, 1)
         IN  IF found # 0 THEN availableFormats[found]
             ELSE availableFormats[1]

\* What vkGetPhysicalDeviceSurfaceFormatsKHR reports for the surface when
\* the program starts: the preferred pair, after another entry.
LaunchFormats ==
    <<[format |-> "R8G8B8A8_UNORM", colorSpace |-> "SRGB_NONLINEAR"],
      PreferredFormat>>

\* The format lists it may report at a later query: the same list, or one
\* without the preferred pair, as for a display that does not offer it.
ReportedFormats ==
    {LaunchFormats,
     <<[format |-> "R8G8B8A8_UNORM", colorSpace |-> "SRGB_NONLINEAR"]>>}

(***************************************************************************)
(* Run: InitWindow and InitVulkan.  Every creation call may fail and throw; *)
(* the objects created before the failing call stay created.               *)
(***************************************************************************)
InitOrder == <<"window", "instance", "surface", "device", "swapchain",
               "views", "renderPass", "pipelineLayout", "pipeline",
               "framebuffers", "commandPool", "commandBuffers", "sync">>

\* The state after the first k creation calls of InitWindow/InitVulkan
\* succeeded, for a chain of n images on a surface reporting availableFormats.
InitCreated(k, n, availableFormats) ==
    LET made(name) == \E j \in 1 .. k : InitOrder[j] = name
        \* CreateSwapChain: m_swapChainImageFormat = surfaceFormat.format
        imageFormat == IF made("swapchain")
                       THEN ChooseSwapSurfaceFormat(availableFormats).format
                       ELSE "UNDEFINED"
    IN  /\ m_swapChainImageFormat' = imageFormat
        \* CreateRenderPass: colorAttachment.format = m_swapChainImageFormat
        /\ colorAttachmentFormat' =
               IF made("renderPass") THEN imageFormat ELSE "UNDEFINED"
        /\ m_objects' = [o \in LongLived |-> IF made(o) THEN "live" ELSE "null"]
        /\ m_swapChain' = IF made("swapchain") THEN "live" ELSE "null"
        /\ m_swapChainImages' = IF made("swapchain") THEN n ELSE 0
        /\ m_swapChainExtent' = IF made("swapchain") THEN fbSize ELSE <<0, 0>>
        /\ m_swapChainImageViews' = IF made("views") THEN Fill(n, "live") ELSE <<>>
        /\ m_swapChainFramebuffers' =
               IF made("framebuffers") THEN Fill(n, "live") ELSE <<>>
        /\ m_commandBuffers' =
               IF made("commandBuffers") THEN Fill(n, "live") ELSE <<>>
        /\ m_sync' = [i \in Slots |-> IF made("sync") THEN "live" ELSE "null"]
        \* VK_FENCE_CREATE_SIGNALED_BIT
        /\ fences' = [i \in Slots |-> made("sync")]

InitVulkan ==
    /\ pc = "init"
    /\ \E n \in ImageCounts : InitCreated(Len(InitOrder), n, LaunchFormats)
    /\ pc' = "loop"
    /\ UNCHANGED <<caller, m_currentFrame, m_framebufferResized, imageIndex,
                   result, acquireResult, size, did, args, sems, frames,
                   fbSize, resizePending, shouldClose, call, ret>>

InitVulkanThrows ==
    /\ pc = "init"
    /\ \E k \in 0 .. (Len(InitOrder) - 1), n \in ImageCounts :
           InitCreated(k, n, LaunchFormats)
    /\ pc' = "fatal"
    /\ UNCHANGED <<caller, m_currentFrame, m_framebufferResized, imageIndex,
                   result, acquireResult, size, did, args, sems, frames,
                   fbSize, resizePending, shouldClose, call, ret>>

(***************************************************************************)
(* GLFW event processing (glfwPollEvents, glfwWaitEvents): delivers the    *)
(* pending size event to FramebufferResizeCallback; a close request that   *)
(* arrives sets the window's should-close flag.                            *)
(***************************************************************************)
\* app->m_framebufferResized = true
FramebufferResizeCallback(flag) == TRUE

ProcessEvents(closeNow) ==
    /\ m_framebufferResized' =
           IF resizePending THEN FramebufferResizeCallback(m_framebufferResized)
           ELSE m_framebufferResized
    /\ resizePending' = FALSE
    /\ shouldClose' = (shouldClose \/ closeNow)

(***************************************************************************)
(* MainLoop                                                                *)
(***************************************************************************)
\* while (!glfwWindowShouldClose(m_window))
MainLoopTest ==
    /\ pc = "loop"
    /\ pc' = IF shouldClose THEN "ml_idle" ELSE "poll"
    /\ UNCHANGED <<caller, m_currentFrame, m_framebufferResized, imageIndex,
                   result, acquireResult, size, did, args, m_swapChain,
                   m_swapChainImages, m_swapChainExtent,
                   m_swapChainImageFormat, colorAttachmentFormat,
                   m_swapChainImageViews, m_swapChainFramebuffers,
                   m_commandBuffers, m_sync, m_objects, fences, sems, frames,
                   fbSize, resizePending, shouldClose, call, ret>>

\* glfwPollEvents(); then DrawFrame() is entered, its locals fresh
PollEvents ==
    /\ pc = "poll"
    /\ \E closeNow \in BOOLEAN : ProcessEvents(closeNow)
    /\ pc' = "wait_fence"
    /\ imageIndex' = 0
    /\ result' = "SUCCESS"
    /\ acquireResult' = "none"
    /\ size' = <<0, 0>>
    /\ caller' = "none"
    \* did starts anew; it remembers that the iteration before recreated
    /\ did' = IF "recreate" \in did THEN {"afterRecreate"} ELSE {}
    /\ UNCHANGED <<m_currentFrame, args, m_swapChain, m_swapChainImages,
                   m_swapChainExtent, m_swapChainImageFormat,
                   colorAttachmentFormat, m_swapChainImageViews,
                   m_swapChainFramebuffers, m_commandBuffers, m_sync,
                   m_objects, fences, sems, frames, fbSize, call, ret>>

(***************************************************************************)
(* The frames in flight.  A DrawFrame iteration whose acquisition succeeds *)
(* starts a frame: [slot, acqSem, acquired, sub, cb, wait, signal, fence,   *)
(* pres, presWait].  acquired: the presentation engine has signaled        *)
(* acqSem.  sub and pres are "none", "queued", "done" (pres also           *)
(* "rejected"): the state of the frame's vkQueueSubmit batch and of its    *)
(* vkQueuePresentKHR request; cb, wait, signal and fence are the batch     *)
(* while it is queued.  The queues execute in submission order, which is   *)
(* the order of the frames.                                                *)
(***************************************************************************)
Submitted(f) == f.sub = "queued"
PresentQueued(f) == f.pres = "queued"

\* graphics queue: the submissions that are not complete, oldest first
gfxQueue == SelectSeq(frames, Submitted)
\* present queue: the presentation requests not yet executed, oldest first
presQueue == SelectSeq(frames, PresentQueued)
\* the acquisitions whose semaphore the presentation engine has yet to signal
acqPending == {f \in Range(frames) : ~f.acquired}

\* A frame stays in flight while any of its operations is outstanding.
Outstanding(f) == ~f.acquired \/ f.sub \in {"none", "queued"}
                      \/ f.pres \in {"none", "queued"}
Retire(fs) == SelectSeq(fs, Outstanding)

(***************************************************************************)
(* DrawFrame                                                               *)
(***************************************************************************)
\* Fault: the wait for the slot's fence is missing.
FenceWaitSkipped(i) == TRUE

\* vkWaitForFences(..., &m_inFlightFences.at(m_currentFrame), VK_TRUE, max)
\* returns once the fence of the current slot is signaled.
WaitForFencesReturns(i) == fences[i]

WaitForFences ==
    /\ pc = "wait_fence"
    /\ WaitForFencesReturns(m_currentFrame)
    /\ pc' = "acquire"
    /\ did' = did \cup {"wait"}
    /\ UNCHANGED <<caller, m_currentFrame, m_framebufferResized, imageIndex,
                   result, acquireResult, size, args, m_swapChain,
                   m_swapChainImages, m_swapChainExtent,
                   m_swapChainImageFormat, colorAttachmentFormat,
                   m_swapChainImageViews, m_swapChainFramebuffers,
                   m_commandBuffers, m_sync, m_objects, fences, sems, frames,
                   fbSize, resizePending, shouldClose, call, ret>>

\* The chain matches the surface while its extent is the framebuffer size.
ChainMatchesSurface == m_swapChainExtent = fbSize

\* What vkAcquireNextImageKHR / vkQueuePresentKHR may return: success while
\* the chain matches the surface, and any of success, suboptimal and out of
\* date (the platform decides) while it does not; "ERROR" is any other
\* VkResult (device lost, surface lost, ...).
AcquireResults(matches) ==
    IF matches THEN {"SUCCESS", "ERROR"}
    ELSE {"SUCCESS", "SUBOPTIMAL", "OUT_OF_DATE", "ERROR"}

PresentResults(matches) == AcquireResults(matches)

\* Fault: the stale result is handled like the suboptimal one.
AfterAcquireStaleGoesOn(res) ==
    IF res \in {"SUCCESS", "SUBOPTIMAL", "OUT_OF_DATE"} THEN "reset_fence"
    ELSE "fatal"

\* Fault: a suboptimal acquisition recreates the chain at once.
AfterAcquireSuboptimalRecreates(res) ==
    IF res \in {"OUT_OF_DATE", "SUBOPTIMAL"} THEN "rc_size"
    ELSE IF res # "SUCCESS" THEN "fatal"
    ELSE "reset_fence"

\* Fault: only success lets the frame go on.
AfterAcquireSuboptimalFatal(res) ==
    IF res = "OUT_OF_DATE" THEN "rc_size"
    ELSE IF res # "SUCCESS" THEN "fatal"
    ELSE "reset_fence"

\* The branch taken on the result of vkAcquireNextImageKHR.
AfterAcquire(res) ==
    IF res = "OUT_OF_DATE" THEN "rc_size"
    ELSE IF res # "SUCCESS" /\ res # "SUBOPTIMAL" THEN "fatal"
    ELSE "reset_fence"

\* The semaphore handed to vkAcquireNextImageKHR.
AcquireSemaphore(i) == ImageAvailable(i)

\* The frame a successful vkAcquireNextImageKHR starts.
NewFrame ==
    [slot |-> m_currentFrame,
     acqSem |-> AcquireSemaphore(m_currentFrame), acquired |-> FALSE,
     sub |-> "none", cb |-> NoCommandBuffer, wait |-> NoSemaphore,
     signal |-> NoSemaphore, fence |-> NoFence,
     pres |-> "none", presWait |-> NoSemaphore]

AcquireNextImage ==
    /\ pc = "acquire"
    /\ \E res \in AcquireResults(ChainMatchesSurface) :
          /\ result' = res
          /\ acquireResult' = res
          /\ IF res \in {"SUCCESS", "SUBOPTIMAL"}
             THEN \* any image the application does not hold may be handed out;
                  \* the semaphore is signaled later by the presentation engine
                  /\ Len(presQueue) < MaxPendingPresents
                  /\ \E img \in 0 .. (m_swapChainImages - 1) : imageIndex' = img
                  /\ frames' = Append(frames, NewFrame)
             ELSE UNCHANGED <<imageIndex, frames>>
          /\ pc' = AfterAcquire(res)
          /\ caller' = IF AfterAcquire(res) = "rc_size" THEN "acquire" ELSE caller
    /\ did' = did \cup {"acquire"}
    /\ UNCHANGED <<m_currentFrame, m_framebufferResized, size, args,
                   m_swapChain, m_swapChainImages, m_swapChainExtent,
                   m_swapChainImageFormat, colorAttachmentFormat,
                   m_swapChainImageViews, m_swapChainFramebuffers,
                   m_commandBuffers, m_sync, m_objects, fences, sems, fbSize,
                   resizePending, shouldClose, call, ret>>

\* vkResetFences(m_device, 1, &m_inFlightFences.at(m_currentFrame))
ResetFences ==
    /\ pc = "reset_fence"
    /\ fences' = [fences EXCEPT ![m_currentFrame] = FALSE]
    /\ pc' = "reset_cb"
    /\ did' = did \cup {"resetFence"}
    /\ UNCHANGED <<caller, m_currentFrame, m_framebufferResized, imageIndex,
                   result, acquireResult, size, args, m_swapChain,
                   m_swapChainImages, m_swapChainExtent,
                   m_swapChainImageFormat, colorAttachmentFormat,
                   m_swapChainImageViews, m_swapChainFramebuffers,
                   m_commandBuffers, m_sync, m_objects, sems, frames, fbSize,
                   resizePending, shouldClose, call, ret>>

\* Fault: the command buffer is chosen by the slot.
CommandBufferOfSlot(image, slot) == slot

\* m_commandBuffers.at(imageIndex): the command buffer DrawFrame resets,
\* records and submits.
CommandBufferIndex(image, slot) == image

\* m_swapChainFramebuffers.at(imageIndex): the framebuffer recorded into it.
FramebufferIndex(image, slot) == image

\* presentInfo.pImageIndices = &imageIndex
PresentImageIndex(image, slot) == image

\* A command buffer is pending while a submission of it is not complete.
Pending(cb) == \E s \in Range(gfxQueue) : s.cb = cb

\* vkResetCommandBuffer(m_commandBuffers.at(imageIndex), 0).  at() throws
\* std::out_of_range for an index past the vector.  Resetting a pending
\* command buffer is undefined: the call goes through or the process dies.
ResetCommandBuffer ==
    /\ pc = "reset_cb"
    /\ \/ /\ imageIndex >= Len(m_commandBuffers)
          /\ pc' = "fatal"
          /\ UNCHANGED <<did, args>>
       \/ /\ imageIndex < Len(m_commandBuffers)
          /\ pc' = "record"
          /\ did' = did \cup {"resetCb"}
          /\ args' = [args EXCEPT !.resetCb =
                         CommandBufferIndex(imageIndex, m_currentFrame)]
       \/ /\ imageIndex < Len(m_commandBuffers)
          /\ Pending(imageIndex)
          /\ pc' = "crashed"
          /\ UNCHANGED <<did, args>>
    /\ UNCHANGED <<caller, m_currentFrame, m_framebufferResized, imageIndex,
                   result, acquireResult, size, m_swapChain, m_swapChainImages,
                   m_swapChainExtent, m_swapChainImageFormat,
                   colorAttachmentFormat, m_swapChainImageViews,
                   m_swapChainFramebuffers, m_commandBuffers, m_sync,
                   m_objects, fences, sems, frames, fbSize, resizePending,
                   shouldClose, call, ret>>

\* Fault: the draw call is missing.
CommandsWithoutDraw(framebuffer, extent) ==
    << <<"vkBeginCommandBuffer">>,
       <<"vkCmdBeginRenderPass", framebuffer, extent>>,
       <<"vkCmdBindPipeline">>,
       <<"vkCmdSetViewport", extent>>,
       <<"vkCmdSetScissor", extent>>,
       <<"vkCmdEndRenderPass">>,
       <<"vkEndCommandBuffer">> >>

\* The commands RecordCommandBuffer puts into the command buffer: the render
\* pass begins on the framebuffer with render area extent, the viewport and
\* the scissor are extent, vkCmdDraw(commandBuffer, 3, 1, 0, 0).
Commands(framebuffer, extent) ==
    << <<"vkBeginCommandBuffer">>,
       <<"vkCmdBeginRenderPass", framebuffer, extent>>,
       <<"vkCmdBindPipeline">>,
       <<"vkCmdSetViewport", extent>>,
       <<"vkCmdSetScissor", extent>>,
       <<"vkCmdDraw", 3, 1, 0, 0>>,
       <<"vkCmdEndRenderPass">>,
       <<"vkEndCommandBuffer">> >>

\* RecordCommandBuffer(m_commandBuffers.at(imageIndex),
\*                     m_swapChainFramebuffers.at(imageIndex))
RecordCommandBuffer ==
    /\ pc = "record"
    /\ \/ \* vkBeginCommandBuffer or vkEndCommandBuffer fails
          /\ pc' = "fatal"
          /\ UNCHANGED <<did, args>>
       \/ /\ pc' = "submit"
          /\ did' = did \cup {"record"}
          /\ args' = [args EXCEPT
                 !.recordCb = CommandBufferIndex(imageIndex, m_currentFrame),
                 !.commands =
                     Commands(FramebufferIndex(imageIndex, m_currentFrame),
                              m_swapChainExtent)]
    /\ UNCHANGED <<caller, m_currentFrame, m_framebufferResized, imageIndex,
                   result, acquireResult, size, m_swapChain, m_swapChainImages,
                   m_swapChainExtent, m_swapChainImageFormat,
                   colorAttachmentFormat, m_swapChainImageViews,
                   m_swapChainFramebuffers, m_commandBuffers, m_sync,
                   m_objects, fences, sems, frames, fbSize, resizePending,
                   shouldClose, call, ret>>

\* Fault: vkQueueSubmit is given no fence.
SubmitWithoutFence(i) == NoFence

\* The VkSubmitInfo and the fence of vkQueueSubmit.
SubmitWaitSemaphore(i) == ImageAvailable(i)
SubmitSignalSemaphore(i) == RenderFinished(i)
SubmitFence(i) == i

QueueSubmit ==
    /\ pc = "submit"
    /\ \/ /\ pc' = "fatal"
          /\ UNCHANGED <<frames, did, args>>
       \/ /\ frames' = [frames EXCEPT ![Len(frames)] =
                 [@ EXCEPT !.sub = "queued",
                           !.cb = CommandBufferIndex(imageIndex,
                                                     m_currentFrame),
                           !.wait = SubmitWaitSemaphore(m_currentFrame),
                           !.signal = SubmitSignalSemaphore(m_currentFrame),
                           !.fence = SubmitFence(m_currentFrame)]]
          /\ pc' = "present"
          /\ did' = did \cup {"submit"}
          /\ args' = [args EXCEPT !.submitCb =
                         CommandBufferIndex(imageIndex, m_currentFrame)]
    /\ UNCHANGED <<caller, m_currentFrame, m_framebufferResized, imageIndex,
                   result, acquireResult, size, m_swapChain, m_swapChainImages,
                   m_swapChainExtent, m_swapChainImageFormat,
                   colorAttachmentFormat, m_swapChainImageViews,
                   m_swapChainFramebuffers, m_commandBuffers, m_sync,
                   m_objects, fences, sems, fbSize, resizePending, shouldClose,
                   call, ret>>

\* The semaphore vkQueuePresentKHR waits on.
PresentWaitSemaphore(i) == RenderFinished(i)

\* result = vkQueuePresentKHR(m_presentQueue, &presentInfo).  The semaphore
\* wait is enqueued also when the request is answered out of date; with any
\* other error (VK_ERROR_OUT_OF_HOST_MEMORY, ...) nothing is enqueued and
\* the semaphore is left as it is.
QueuePresent ==
    /\ pc = "present"
    /\ \E res \in PresentResults(ChainMatchesSurface) :
          /\ result' = res
          /\ frames' = [frames EXCEPT ![Len(frames)] =
                 [@ EXCEPT !.pres = IF res = "ERROR" THEN "rejected" ELSE "queued",
                           !.presWait = PresentWaitSemaphore(m_currentFrame)]]
    /\ pc' = "check"
    /\ did' = did \cup {"present"}
    /\ args' = [args EXCEPT !.presentImage =
                   PresentImageIndex(imageIndex, m_currentFrame)]
    /\ UNCHANGED <<caller, m_currentFrame, m_framebufferResized, imageIndex,
                   acquireResult, size, m_swapChain, m_swapChainImages,
                   m_swapChainExtent, m_swapChainImageFormat,
                   colorAttachmentFormat, m_swapChainImageViews,
                   m_swapChainFramebuffers, m_commandBuffers, m_sync,
                   m_objects, fences, sems, fbSize, resizePending, shouldClose,
                   call, ret>>

\* Fault: the suboptimal result is not tested.
NeedsRecreateIgnoresSuboptimal(res, resized) == res = "OUT_OF_DATE" \/ resized

\* Fault: the resize flag is not tested.
NeedsRecreateIgnoresFlag(res, resized) ==
    res = "OUT_OF_DATE" \/ res = "SUBOPTIMAL"

\* if (VK_ERROR_OUT_OF_DATE_KHR == result || VK_SUBOPTIMAL_KHR == result
\*     || m_framebufferResized)
PresentNeedsRecreate(res, resized) ==
    res = "OUT_OF_DATE" \/ res = "SUBOPTIMAL" \/ resized

PostPresentCheck ==
    /\ pc = "check"
    /\ IF PresentNeedsRecreate(result, m_framebufferResized)
       THEN /\ m_framebufferResized' = FALSE
            /\ pc' = "rc_size"
            /\ caller' = "present"
       ELSE /\ pc' = IF result # "SUCCESS" THEN "fatal" ELSE "advance"
            /\ UNCHANGED <<m_framebufferResized, caller>>
    \* the locals result and imageIndex are not read again in this call
    /\ result' = "SUCCESS"
    /\ imageIndex' = 0
    /\ acquireResult' = "none"
    /\ args' = NoArgs
    /\ UNCHANGED <<m_currentFrame, size, did, m_swapChain, m_swapChainImages,
                   m_swapChainExtent, m_swapChainImageFormat,
                   colorAttachmentFormat, m_swapChainImageViews,
                   m_swapChainFramebuffers, m_commandBuffers, m_sync,
                   m_objects, fences, sems, frames, fbSize, resizePending,
                   shouldClose, call, ret>>

\* m_currentFrame = (m_currentFrame + 1) % MAX_FRAMES_IN_FLIGHT
AdvanceFrame ==
    /\ pc = "advance"
    /\ m_currentFrame' = (m_currentFrame + 1) % MAX_FRAMES_IN_FLIGHT
    /\ pc' = "loop"
    /\ UNCHANGED <<caller, m_framebufferResized, imageIndex, result,
                   acquireResult, size, did, args, m_swapChain,
                   m_swapChainImages, m_swapChainExtent,
                   m_swapChainImageFormat, colorAttachmentFormat,
                   m_swapChainImageViews, m_swapChainFramebuffers,
                   m_commandBuffers, m_sync, m_objects, fences, sems, frames,
                   fbSize, resizePending, shouldClose, call, ret>>

(***************************************************************************)
(* RecreateSwapChain                                                       *)
(***************************************************************************)
\* Fault: the loop on a zero size is missing.
NeverMinimized(sz) == FALSE

\* while (0 == width || 0 == height)
Minimized(sz) == sz[1] = 0 \/ sz[2] = 0

\* int width{0}, height{0}; glfwGetFramebufferSize(m_window, &width, &height);
\* followed by the first test of the while condition
RecreateGetSize ==
    /\ pc = "rc_size"
    /\ size' = fbSize
    /\ pc' = IF Minimized(fbSize) THEN "rc_size2" ELSE "rc_idle"
    /\ UNCHANGED <<caller, m_currentFrame, m_framebufferResized, imageIndex,
                   result, acquireResult, did, args, m_swapChain,
                   m_swapChainImages, m_swapChainExtent,
                   m_swapChainImageFormat, colorAttachmentFormat,
                   m_swapChainImageViews, m_swapChainFramebuffers,
                   m_commandBuffers, m_sync, m_objects, fences, sems, frames,
                   fbSize, resizePending, shouldClose, call, ret>>

\* loop body, first statement: glfwGetFramebufferSize(m_window, &width, &height)
RecreateLoopGetSize ==
    /\ pc = "rc_size2"
    /\ size' = fbSize
    /\ pc' = "rc_wait"
    /\ UNCHANGED <<caller, m_currentFrame, m_framebufferResized, imageIndex,
                   result, acquireResult, did, args, m_swapChain,
                   m_swapChainImages, m_swapChainExtent,
                   m_swapChainImageFormat, colorAttachmentFormat,
                   m_swapChainImageViews, m_swapChainFramebuffers,
                   m_commandBuffers, m_sync, m_objects, fences, sems, frames,
                   fbSize, resizePending, shouldClose, call, ret>>

\* loop body, second statement: glfwWaitEvents() sleeps until an event is
\* there and processes it; then the while condition is tested again
RecreateWaitEvents ==
    /\ pc = "rc_wait"
    /\ \E closeNow \in BOOLEAN :
          /\ resizePending \/ closeNow
          /\ ProcessEvents(closeNow)
    /\ pc' = IF Minimized(size) THEN "rc_size2" ELSE "rc_idle"
    /\ UNCHANGED <<caller, m_currentFrame, imageIndex, result, acquireResult,
                   size, did, args, m_swapChain, m_swapChainImages,
                   m_swapChainExtent, m_swapChainImageFormat,
                   colorAttachmentFormat, m_swapChainImageViews,
                   m_swapChainFramebuffers, m_commandBuffers, m_sync,
                   m_objects, fences, sems, frames, fbSize, call, ret>>

\* vkDeviceWaitIdle returns once no queue has an operation outstanding.
DeviceIdle == gfxQueue = <<>> /\ presQueue = <<>>

\* Fault: the wait for the device is missing.
IdleWaitSkipped == TRUE

\* vkDeviceWaitIdle(m_device) in RecreateSwapChain
RecreateWaitIdleReturns == DeviceIdle

RecreateDeviceWaitIdle ==
    /\ pc = "rc_idle"
    /\ RecreateWaitIdleReturns
    /\ pc' = "cs_fb"
    /\ UNCHANGED <<caller, m_currentFrame, m_framebufferResized, imageIndex,
                   result, acquireResult, size, did, args, m_swapChain,
                   m_swapChainImages, m_swapChainExtent,
                   m_swapChainImageFormat, colorAttachmentFormat,
                   m_swapChainImageViews, m_swapChainFramebuffers,
                   m_commandBuffers, m_sync, m_objects, fences, sems, frames,
                   fbSize, resizePending, shouldClose, call, ret>>

(***************************************************************************)
(* CleanupSwapChain, called by RecreateSwapChain and by Cleanup.  The      *)
(* vectors keep their (now dangling) handles and m_swapChain its value.    *)
(***************************************************************************)
\* Fault: the loops of CleanupSwapChain destroy nothing.
DestroyNone(handles) == handles

\* for (auto h : handles) vkDestroy...(m_device, h, nullptr); destroying
\* VK_NULL_HANDLE does nothing
DestroyAll(handles) ==
    [i \in 1 .. Len(handles) |->
        IF handles[i] = "null" THEN "null" ELSE "destroyed"]

CleanupFramebuffers ==
    /\ pc = "cs_fb"
    /\ m_swapChainFramebuffers' = DestroyAll(m_swapChainFramebuffers)
    /\ pc' = "cs_views"
    /\ UNCHANGED <<caller, m_currentFrame, m_framebufferResized, imageIndex,
                   result, acquireResult, size, did, args, m_swapChain,
                   m_swapChainImages, m_swapChainExtent,
                   m_swapChainImageFormat, colorAttachmentFormat,
                   m_swapChainImageViews, m_commandBuffers, m_sync, m_objects,
                   fences, sems, frames, fbSize, resizePending, shouldClose,
                   call, ret>>

CleanupImageViews ==
    /\ pc = "cs_views"
    /\ m_swapChainImageViews' = DestroyAll(m_swapChainImageViews)
    /\ pc' = "cs_chain"
    /\ UNCHANGED <<caller, m_currentFrame, m_framebufferResized, imageIndex,
                   result, acquireResult, size, did, args, m_swapChain,
                   m_swapChainImages, m_swapChainExtent,
                   m_swapChainImageFormat, colorAttachmentFormat,
                   m_swapChainFramebuffers, m_commandBuffers, m_sync,
                   m_objects, fences, sems, frames, fbSize, resizePending,
                   shouldClose, call, ret>>

\* Fault: RecreateSwapChain goes on like Cleanup after CleanupSwapChain.
CleanupRunsOn(from) == "cl_pipeline"

\* where CleanupSwapChain returns to: Cleanup goes on to destroy the
\* pipeline, RecreateSwapChain goes on to CreateSwapChain
AfterCleanupSwapChain(from) ==
    IF from = "cleanup" THEN "cl_pipeline" ELSE "rc_create"

CleanupSwapchainHandle ==
    /\ pc = "cs_chain"
    /\ m_swapChain' = "destroyed"
    /\ pc' = AfterCleanupSwapChain(caller)
    /\ UNCHANGED <<caller, m_currentFrame, m_framebufferResized, imageIndex,
                   result, acquireResult, size, did, args, m_swapChainImages,
                   m_swapChainExtent, m_swapChainImageFormat,
                   colorAttachmentFormat, m_swapChainImageViews,
                   m_swapChainFramebuffers, m_commandBuffers, m_sync,
                   m_objects, fences, sems, frames, fbSize, resizePending,
                   shouldClose, call, ret>>

(***************************************************************************)
(* CreateSwapChain, CreateImageViews, CreateFramebuffers in                *)
(* RecreateSwapChain.                                                      *)
(***************************************************************************)
\* vector::resize keeps the leading handles and value-initialises new ones
Resize(handles, n) ==
    [i \in 1 .. n |-> IF i <= Len(handles) THEN handles[i] ELSE "null"]

\* the creation loop ran for the first k entries
CreateFirst(handles, k) ==
    [i \in 1 .. Len(handles) |-> IF i <= k THEN "live" ELSE handles[i]]

\* Fault: the return after RecreateSwapChain on the stale path is missing.
ReturnMissing(from) == IF from = "acquire" THEN "reset_fence" ELSE "advance"

\* Fault: the slot update follows every recreation.
RecreateReturnAdvances(from) == "advance"

\* where RecreateSwapChain returns to: DrawFrame returns right after the
\* call on the stale-acquire path, and goes on to the slot update otherwise
RecreateReturn(from) == IF from = "acquire" THEN "loop" ELSE "advance"

RecreateCreateSwapChain ==
    /\ pc = "rc_create"
    /\ \/ \* vkCreateSwapchainKHR fails
          /\ pc' = "fatal"
          /\ UNCHANGED <<m_swapChain, m_swapChainImages, m_swapChainExtent,
                         m_swapChainImageFormat>>
       \/ /\ \E n \in ImageCounts : m_swapChainImages' = n
          /\ m_swapChain' = "live"
          \* the support snapshot is queried anew and the format chosen from it
          /\ \E availableFormats \in ReportedFormats :
                m_swapChainImageFormat' =
                    ChooseSwapSurfaceFormat(availableFormats).format
          /\ m_swapChainExtent' = fbSize
          /\ pc' = "rc_views"
    /\ UNCHANGED <<caller, m_currentFrame, m_framebufferResized, imageIndex,
                   result, acquireResult, size, did, args,
                   colorAttachmentFormat, m_swapChainImageViews,
                   m_swapChainFramebuffers, m_commandBuffers, m_sync,
                   m_objects, fences, sems, frames, fbSize, resizePending,
                   shouldClose, call, ret>>

RecreateCreateImageViews ==
    /\ pc = "rc_views"
    /\ LET resized == Resize(m_swapChainImageViews, m_swapChainImages)
       IN  \/ \* vkCreateImageView fails for entry k + 1
              /\ \E k \in 0 .. (m_swapChainImages - 1) :
                    m_swapChainImageViews' = CreateFirst(resized, k)
              /\ pc' = "fatal"
           \/ /\ m_swapChainImageViews' = CreateFirst(resized, m_swapChainImages)
              /\ pc' = "rc_fbs"
    /\ UNCHANGED <<caller, m_currentFrame, m_framebufferResized, imageIndex,
                   result, acquireResult, size, did, args, m_swapChain,
                   m_swapChainImages, m_swapChainExtent,
                   m_swapChainImageFormat, colorAttachmentFormat,
                   m_swapChainFramebuffers, m_commandBuffers, m_sync,
                   m_objects, fences, sems, frames, fbSize, resizePending,
                   shouldClose, call, ret>>

RecreateCreateFramebuffers ==
    /\ pc = "rc_fbs"
    /\ LET n == Len(m_swapChainImageViews)
           resized == Resize(m_swapChainFramebuffers, n)
       IN  \/ \* vkCreateFramebuffer fails for entry k + 1
              /\ \E k \in 0 .. (n - 1) :
                    m_swapChainFramebuffers' = CreateFirst(resized, k)
              /\ pc' = "fatal"
              /\ UNCHANGED did
           \/ /\ m_swapChainFramebuffers' = CreateFirst(resized, n)
              /\ pc' = RecreateReturn(caller)
              /\ did' = did \cup {"recreate"}
    /\ UNCHANGED <<caller, m_currentFrame, m_framebufferResized, imageIndex,
                   result, acquireResult, size, args, m_swapChain,
                   m_swapChainImages, m_swapChainExtent,
                   m_swapChainImageFormat, colorAttachmentFormat,
                   m_swapChainImageViews, m_commandBuffers, m_sync, m_objects,
                   fences, sems, frames, fbSize, resizePending, shouldClose,
                   call, ret>>

(***************************************************************************)
(* End of MainLoop, and Cleanup                                            *)
(***************************************************************************)
\* vkDeviceWaitIdle(m_device) after the while loop of MainLoop
MainLoopWaitIdleReturns == DeviceIdle

MainLoopDeviceWaitIdle ==
    /\ pc = "ml_idle"
    /\ MainLoopWaitIdleReturns
    /\ pc' = "cs_fb"
    /\ caller' = "cleanup"
    /\ UNCHANGED <<m_currentFrame, m_framebufferResized, imageIndex, result,
                   acquireResult, size, did, args, m_swapChain,
                   m_swapChainImages, m_swapChainExtent,
                   m_swapChainImageFormat, colorAttachmentFormat,
                   m_swapChainImageViews, m_swapChainFramebuffers,
                   m_commandBuffers, m_sync, m_objects, fences, sems, frames,
                   fbSize, resizePending, shouldClose, call, ret>>

DestroyObjects(names) ==
    m_objects' = [o \in LongLived |-> IF o \in names THEN "destroyed" ELSE m_objects[o]]

\* vkDestroyPipeline, vkDestroyPipelineLayout, vkDestroyRenderPass
CleanupPipeline ==
    /\ pc = "cl_pipeline"
    /\ DestroyObjects({"pipeline", "pipelineLayout", "renderPass"})
    /\ pc' = "cl_sync"
    /\ UNCHANGED <<caller, m_currentFrame, m_framebufferResized, imageIndex,
                   result, acquireResult, size, did, args, m_swapChain,
                   m_swapChainImages, m_swapChainExtent,
                   m_swapChainImageFormat, colorAttachmentFormat,
                   m_swapChainImageViews, m_swapChainFramebuffers,
                   m_commandBuffers, m_sync, fences, sems, frames, fbSize,
                   resizePending, shouldClose, call, ret>>

\* for (i < MAX_FRAMES_IN_FLIGHT) vkDestroySemaphore x2, vkDestroyFence
CleanupSyncObjects ==
    /\ pc = "cl_sync"
    /\ m_sync' = [i \in Slots |-> "destroyed"]
    /\ pc' = "cl_rest"
    /\ UNCHANGED <<caller, m_currentFrame, m_framebufferResized, imageIndex,
                   result, acquireResult, size, did, args, m_swapChain,
                   m_swapChainImages, m_swapChainExtent,
                   m_swapChainImageFormat, colorAttachmentFormat,
                   m_swapChainImageViews, m_swapChainFramebuffers,
                   m_commandBuffers, m_objects, fences, sems, frames, fbSize,
                   resizePending, shouldClose, call, ret>>

\* vkDestroyCommandPool ... glfwDestroyWindow, glfwTerminate
CleanupRest ==
    /\ pc = "cl_rest"
    /\ DestroyObjects({"commandPool", "device", "surface", "instance", "window"})
    /\ pc' = "done"
    /\ UNCHANGED <<caller, m_currentFrame, m_framebufferResized, imageIndex,
                   result, acquireResult, size, did, args, m_swapChain,
                   m_swapChainImages, m_swapChainExtent,
                   m_swapChainImageFormat, colorAttachmentFormat,
                   m_swapChainImageViews, m_swapChainFramebuffers,
                   m_commandBuffers, m_sync, fences, sems, frames, fbSize,
                   resizePending, shouldClose, call, ret>>

(***************************************************************************)
(* The environment: device, presentation engine, window system.            *)
(***************************************************************************)
\* The presentation engine signals the semaphore of an acquisition.
SignalAcquire ==
    /\ ~Terminated
    /\ \E k \in 1 .. Len(frames) :
          /\ ~frames[k].acquired
          /\ sems' = [sems EXCEPT ![frames[k].acqSem] = TRUE]
          /\ frames' = Retire([frames EXCEPT ![k].acquired = TRUE])
    /\ UNCHANGED <<pc, caller, m_currentFrame, m_framebufferResized,
                   imageIndex, result, acquireResult, size, did, args,
                   m_swapChain, m_swapChainImages, m_swapChainExtent,
                   m_swapChainImageFormat, colorAttachmentFormat,
                   m_swapChainImageViews, m_swapChainFramebuffers,
                   m_commandBuffers, m_sync, m_objects, fences, fbSize,
                   resizePending, shouldClose, call, ret>>

\* The graphics queue executes its oldest submission: it waits for (and
\* unsignals) the wait semaphore, runs the command buffer, then signals the
\* signal semaphore and the fence.
ExecuteSubmission ==
    /\ ~Terminated
    /\ \E k \in 1 .. Len(frames) :
          /\ Submitted(frames[k])
          /\ \A j \in 1 .. (k - 1) : ~Submitted(frames[j])
          /\ sems[frames[k].wait]
          /\ sems' = [t \in Semaphores |->
                         IF t = frames[k].signal THEN TRUE
                         ELSE IF t = frames[k].wait THEN FALSE ELSE sems[t]]
          /\ fences' = [fences EXCEPT ![frames[k].fence] = TRUE]
          /\ frames' = Retire([frames EXCEPT ![k] =
                 [@ EXCEPT !.sub = "done", !.cb = NoCommandBuffer,
                           !.wait = NoSemaphore, !.signal = NoSemaphore,
                           !.fence = NoFence]])
    /\ UNCHANGED <<pc, caller, m_currentFrame, m_framebufferResized,
                   imageIndex, result, acquireResult, size, did, args,
                   m_swapChain, m_swapChainImages, m_swapChainExtent,
                   m_swapChainImageFormat, colorAttachmentFormat,
                   m_swapChainImageViews, m_swapChainFramebuffers,
                   m_commandBuffers, m_sync, m_objects, fbSize, resizePending,
                   shouldClose, call, ret>>

\* The present queue executes its oldest request: it waits for (and
\* unsignals) the wait semaphore and hands the image to the engine.
ExecutePresent ==
    /\ ~Terminated
    /\ \E k \in 1 .. Len(frames) :
          /\ PresentQueued(frames[k])
          /\ \A j \in 1 .. (k - 1) : ~PresentQueued(frames[j])
          /\ sems[frames[k].presWait]
          /\ sems' = [sems EXCEPT ![frames[k].presWait] = FALSE]
          /\ frames' = Retire([frames EXCEPT ![k].pres = "done"])
    /\ UNCHANGED <<pc, caller, m_currentFrame, m_framebufferResized,
                   imageIndex, result, acquireResult, size, did, args,
                   m_swapChain, m_swapChainImages, m_swapChainExtent,
                   m_swapChainImageFormat, colorAttachmentFormat,
                   m_swapChainImageViews, m_swapChainFramebuffers,
                   m_commandBuffers, m_sync, m_objects, fences, fbSize,
                   resizePending, shouldClose, call, ret>>

\* The window system changes the framebuffer size (minimize, restore) and
\* a size event becomes pending.
WindowResize ==
    /\ ~Terminated
    /\ \E sz \in WindowSizes \ {fbSize} : fbSize' = sz
    /\ resizePending' = TRUE
    /\ UNCHANGED <<pc, caller, m_currentFrame, m_framebufferResized,
                   imageIndex, result, acquireResult, size, did, args,
                   m_swapChain, m_swapChainImages, m_swapChainExtent,
                   m_swapChainImageFormat, colorAttachmentFormat,
                   m_swapChainImageViews, m_swapChainFramebuffers,
                   m_commandBuffers, m_sync, m_objects, fences, sems, frames,
                   shouldClose, call, ret>>

Next ==
    \/ InitVulkan
    \/ InitVulkanThrows
    \/ MainLoopTest
    \/ PollEvents
    \/ WaitForFences
    \/ AcquireNextImage
    \/ ResetFences
    \/ ResetCommandBuffer
    \/ RecordCommandBuffer
    \/ QueueSubmit
    \/ QueuePresent
    \/ PostPresentCheck
    \/ AdvanceFrame
    \/ RecreateGetSize
    \/ RecreateLoopGetSize
    \/ RecreateWaitEvents
    \/ RecreateDeviceWaitIdle
    \/ CleanupFramebuffers
    \/ CleanupImageViews
    \/ CleanupSwapchainHandle
    \/ RecreateCreateSwapChain
    \/ RecreateCreateImageViews
    \/ RecreateCreateFramebuffers
    \/ MainLoopDeviceWaitIdle
    \/ CleanupPipeline
    \/ CleanupSyncObjects
    \/ CleanupRest
    \/ SignalAcquire
    \/ ExecuteSubmission
    \/ ExecutePresent
    \/ WindowResize

Spec == Init /\ [][Next]_vars

\* Fair progress of the device: an acquisition's semaphore is eventually
\* signaled, and a submission whose wait semaphore is signaled is eventually
\* executed (every submitted command buffer completes).
GpuProgressSpec ==
    Spec /\ WF_vars(SignalAcquire) /\ WF_vars(ExecuteSubmission)

\* The steps of the controlling thread (Run), without the environment.
ThreadStep ==
    \/ InitVulkan
    \/ InitVulkanThrows
    \/ MainLoopTest
    \/ PollEvents
    \/ WaitForFences
    \/ AcquireNextImage
    \/ ResetFences
    \/ ResetCommandBuffer
    \/ RecordCommandBuffer
    \/ QueueSubmit
    \/ QueuePresent
    \/ PostPresentCheck
    \/ AdvanceFrame
    \/ RecreateGetSize
    \/ RecreateLoopGetSize
    \/ RecreateWaitEvents
    \/ RecreateDeviceWaitIdle
    \/ CleanupFramebuffers
    \/ CleanupImageViews
    \/ CleanupSwapchainHandle
    \/ RecreateCreateSwapChain
    \/ RecreateCreateImageViews
    \/ RecreateCreateFramebuffers
    \/ MainLoopDeviceWaitIdle
    \/ CleanupPipeline
    \/ CleanupSyncObjects
    \/ CleanupRest


(***************************************************************************)
(* CleanupSwapChain called twice in succession, with no create in between, *)
(* on any vectors of up to MaxImages handles.                              *)
(***************************************************************************)
\* The vectors of at most n handles, each created or still null.
HandleVectors(n) ==
    UNION {[1 .. k -> {"null", "live"}] : k \in 0 .. n}

\* The handles of the vector a destroy call is made for although they are
\* destroyed already.
DestroyedAgain(handles) ==
    {i \in 1 .. Len(handles) : handles[i] = "destroyed"}

\* CleanupSwapChain destroys a handle a second time.
DoubleDestroy ==
    \/ DestroyedAgain(m_swapChainFramebuffers) # {}
    \/ DestroyedAgain(m_swapChainImageViews) # {}
    \/ m_swapChain = "destroyed"

\* CleanupSwapChain() noexcept, the whole function: the vectors keep their
\* size and their handles, m_swapChain keeps its value.
CleanupSwapChain ==
    /\ m_swapChainFramebuffers' = DestroyAll(m_swapChainFramebuffers)
    /\ m_swapChainImageViews' = DestroyAll(m_swapChainImageViews)
    /\ m_swapChain' = IF m_swapChain = "null" THEN "null" ELSE "destroyed"

\* The objects CleanupSwapChain finds: any vectors, any handle.
CleanupTwiceSetUp ==
    /\ pc = "init"
    /\ m_swapChainFramebuffers' \in HandleVectors(MaxImages)
    /\ m_swapChainImageViews' \in HandleVectors(MaxImages)
    /\ m_swapChain' \in {"null", "live"}
    /\ pc' = "twice_0"
    /\ UNCHANGED <<caller, m_currentFrame, m_framebufferResized, imageIndex,
                   result, acquireResult, size, did, args, m_swapChainImages,
                   m_swapChainExtent, m_swapChainImageFormat,
                   colorAttachmentFormat, m_commandBuffers, m_sync, m_objects,
                   fences, sems, frames, fbSize, resizePending, shouldClose,
                   call, ret>>

\* Destroying a destroyed handle is undefined: the call goes through or the
\* process dies.
CleanupTwiceCall ==
    /\ pc \in {"twice_0", "twice_1"}
    /\ CleanupSwapChain
    /\ \/ pc' = IF pc = "twice_0" THEN "twice_1" ELSE "twice_2"
       \/ /\ DoubleDestroy
          /\ pc' = "crashed"
    /\ UNCHANGED <<caller, m_currentFrame, m_framebufferResized, imageIndex,
                   result, acquireResult, size, did, args, m_swapChainImages,
                   m_swapChainExtent, m_swapChainImageFormat,
                   colorAttachmentFormat, m_commandBuffers, m_sync, m_objects,
                   fences, sems, frames, fbSize, resizePending, shouldClose,
                   call, ret>>

CleanupTwiceNext ==
    \/ CleanupTwiceSetUp
    \/ CleanupTwiceCall

CleanupTwiceSpec == Init /\ [][CleanupTwiceNext]_vars

(***************************************************************************)
(* Device selection and swap chain configuration.  These member functions  *)
(* compute their result from what the device reports; each is written as   *)
(* the code computes it and called on its own with inputs from bounded     *)
(* sets (FunctionsSpec below).                                             *)
(***************************************************************************)

\* g_deviceExtensions: the extensions a device must support.
g_deviceExtensions == {"VK_KHR_swapchain"}

\* Extension names a device may report.
ExtensionNames == {"VK_KHR_swapchain", "VK_KHR_maintenance1"}

\* std::optional<uint32_t> without a value.
nullopt == -1

\* QueueFamilyIndices after construction: neither family found.
NoIndices == [graphicsFamily |-> nullopt, presentFamily |-> nullopt]

\* Fault: a graphics family alone makes the indices complete.
GraphicsFamilyOnly(indices) == indices.graphicsFamily # nullopt

\* QueueFamilyIndices::IsComplete.
IsComplete(indices) ==
    indices.graphicsFamily # nullopt /\ indices.presentFamily # nullopt

\* A queue family: does it have VK_QUEUE_GRAPHICS_BIT, can it present to
\* the surface.
QueueFamilies == [graphics : BOOLEAN, present : BOOLEAN]

\* Sequences over S of a length in lo .. hi.
SeqsOf(S, lo, hi) == UNION {[1 .. k -> S] : k \in lo .. hi}

\* The loop of FindQueueFamilies from its i-th round (i counts from 1, the
\* family index stored is i - 1): a later family overwrites an earlier one,
\* and the loop breaks as soon as both families are found.
RECURSIVE FindQueueFamiliesFrom(_, _, _)
FindQueueFamiliesFrom(queueFamilies, i, indices) ==
    IF i > Len(queueFamilies) THEN indices
    ELSE LET g == IF queueFamilies[i].graphics
                  THEN [indices EXCEPT !.graphicsFamily = i - 1]
                  ELSE indices
             p == IF queueFamilies[i].present
                  THEN [g EXCEPT !.presentFamily = i - 1]
                  ELSE g
         IN  IF IsComplete(p) THEN p
             ELSE FindQueueFamiliesFrom(queueFamilies, i + 1, p)

FindQueueFamilies(device) ==
    FindQueueFamiliesFrom(device.queueFamilies, 1, NoIndices)

\* CheckDeviceExtensionSupported: every required name erased from the set
\* by an available one.
CheckDeviceExtensionSupported(device) ==
    g_deviceExtensions \ device.extensions = {}

\* QuerySwapChainSupport: the formats and present modes of the surface.
QuerySwapChainSupport(device) ==
    [foramts |-> device.formats, presentModes |-> device.presentModes]

\* IsDeviceSuitable: the swap chain is queried only when the extensions are
\* supported.
IsDeviceSuitable(device) ==
    LET indices == FindQueueFamilies(device)
        extensionsSupported == CheckDeviceExtensionSupported(device)
        swapChainAdequate ==
            IF extensionsSupported
            THEN LET swapChainSupport == QuerySwapChainSupport(device)
                 IN  swapChainSupport.foramts # <<>>
                     /\ swapChainSupport.presentModes # <<>>
            ELSE FALSE
    IN  IsComplete(indices) /\ extensionsSupported /\ swapChainAdequate

\* A VkPhysicalDevice handle is the device's position in the enumeration
\* (1, 2, ...); nullptr is no device.
nullptr == 0

\* Fault: the loop does not break, the last suitable device is kept.
PickLastSuitable(devices, i) ==
    LET suitable == {j \in i .. Len(devices) : IsDeviceSuitable(devices[j])}
    IN  IF suitable = {} THEN nullptr
        ELSE CHOOSE j \in suitable : \A k \in suitable : k <= j

\* The loop of PickPhysicalDevice from the i-th enumerated device: the first
\* suitable device is taken and the loop breaks.
RECURSIVE PickPhysicalDeviceFrom(_, _)
PickPhysicalDeviceFrom(devices, i) ==
    IF i > Len(devices) THEN nullptr
    ELSE IF IsDeviceSuitable(devices[i]) THEN i
    ELSE PickPhysicalDeviceFrom(devices, i + 1)

\* PickPhysicalDevice: what it throws ("" when it returns) and the value of
\* m_physicalDevice it leaves.
PickPhysicalDevice(devices) ==
    IF Len(devices) = 0
    THEN [thrown |-> "failed to find GPUs with Vulkan support",
          m_physicalDevice |-> nullptr]
    ELSE LET picked == PickPhysicalDeviceFrom(devices, 1)
         IN  IF picked = nullptr
             THEN [thrown |-> "failed to find a suitable GPU",
                   m_physicalDevice |-> nullptr]
             ELSE [thrown |-> "", m_physicalDevice |-> picked]

\* std::numeric_limits<uint32_t>::max().  The unsigned type is modelled 16
\* bits wide (the model checker's integers are 32 bits wide, signed).
UintMax == 65535

\* Arithmetic and conversion to the unsigned type.
ToUint32(n) == n % (UintMax + 1)

\* Fault: the surface's upper bound on the image count is ignored.
ImageCountUnbounded(minImageCount, maxImageCount) ==
    ToUint32(minImageCount + 1)

\* CreateSwapChain: the image count put into the create info.
ImageCount(minImageCount, maxImageCount) ==
    LET imageCount == ToUint32(minImageCount + 1)
    IN  IF maxImageCount > 0 /\ imageCount > maxImageCount
        THEN maxImageCount
        ELSE imageCount

\* Fault: the value is passed on as it is.
NoClamp(v, lo, hi) == v

\* std::clamp(v, lo, hi), for lo <= hi.
Clamp(v, lo, hi) == IF v < lo THEN lo ELSE IF hi < v THEN hi ELSE v

\* ChooseSwapExtent: the window's framebuffer size (glfwGetFramebufferSize)
\* is read only when the width of currentExtent is the sentinel.
ChooseSwapExtent(capabilities, framebufferSize) ==
    IF UintMax # capabilities.currentExtent.width
    THEN capabilities.currentExtent
    ELSE LET actualExtent == [width  |-> ToUint32(framebufferSize.width),
                              height |-> ToUint32(framebufferSize.height)]
         IN  [width  |-> Clamp(actualExtent.width,
                               capabilities.minImageExtent.width,
                               capabilities.maxImageExtent.width),
              height |-> Clamp(actualExtent.height,
                               capabilities.minImageExtent.height,
                               capabilities.maxImageExtent.height)]

\* The present modes a surface may offer.
PresentModes == {"IMMEDIATE", "MAILBOX", "FIFO", "FIFO_RELAXED"}

\* Fault: the first of the two preferred modes in the list is taken.
RECURSIVE ChooseFirstPreferredMode(_, _, _)
ChooseFirstPreferredMode(availablePresentModes, i, bestMode) ==
    IF i > Len(availablePresentModes) THEN bestMode
    ELSE IF availablePresentModes[i] \in {"MAILBOX", "IMMEDIATE"}
    THEN availablePresentModes[i]
    ELSE ChooseFirstPreferredMode(availablePresentModes, i + 1, bestMode)

\* The loop of ChooseSwapPresentMode from the i-th offered mode: MAILBOX is
\* returned at once, IMMEDIATE is remembered.
RECURSIVE ChooseSwapPresentModeFrom(_, _, _)
ChooseSwapPresentModeFrom(availablePresentModes, i, bestMode) ==
    IF i > Len(availablePresentModes) THEN bestMode
    ELSE IF availablePresentModes[i] = "MAILBOX" THEN "MAILBOX"
    ELSE IF availablePresentModes[i] = "IMMEDIATE"
    THEN ChooseSwapPresentModeFrom(availablePresentModes, i + 1, "IMMEDIATE")
    ELSE ChooseSwapPresentModeFrom(availablePresentModes, i + 1, bestMode)

ChooseSwapPresentMode(availablePresentModes) ==
    ChooseSwapPresentModeFrom(availablePresentModes, 1, "FIFO")

(***************************************************************************)
(* The functions called on their own.  The inputs are what a Vulkan        *)
(* implementation may report: a surface's minImageCount is at least 1, a   *)
(* maxImageCount other than 0 is at least minImageCount, minImageExtent is *)
(* at most maxImageExtent in both dimensions, currentExtent is an extent   *)
(* or the sentinel (UintMax, UintMax), a framebuffer size is not negative. *)
(***************************************************************************)
MaxFamilies == 2
MaxDevices == 3
MaxModes == 3
MaxFormats == 3
MaxImageCount == 4
MaxExtent == 2

Devices ==
    [queueFamilies : SeqsOf(QueueFamilies, 0, MaxFamilies),
     extensions    : SUBSET ExtensionNames,
     formats       : {<<>>, <<PreferredFormat>>},
     presentModes  : {<<>>, <<"FIFO">>}]

\* The devices put into an enumeration: at most one queue family each.
EnumeratedDevices ==
    {d \in Devices : /\ Len(d.queueFamilies) <= 1
                     /\ d.extensions \subseteq g_deviceExtensions
                     /\ d.formats # <<>>}

Extents == [width : 0 .. MaxExtent, height : 0 .. MaxExtent]

\* currentExtent of a surface whose size the swap chain determines.
UndefinedExtent == [width |-> UintMax, height |-> UintMax]

Capabilities ==
    {c \in [currentExtent  : Extents \cup {UndefinedExtent},
            minImageExtent : Extents,
            maxImageExtent : Extents] :
        /\ c.minImageExtent.width <= c.maxImageExtent.width
        /\ c.minImageExtent.height <= c.maxImageExtent.height}

ImageCountBounds ==
    {c \in [minImageCount : 1 .. MaxImageCount,
            maxImageCount : 0 .. MaxImageCount] :
        c.maxImageCount = 0 \/ c.minImageCount <= c.maxImageCount}

Calls ==
    [fn : {"IsDeviceSuitable"}, device : Devices]
    \cup [fn : {"PickPhysicalDevice"},
          devices : SeqsOf(EnumeratedDevices, 0, MaxDevices)]
    \cup [fn : {"ImageCount"}, capabilities : ImageCountBounds]
    \cup [fn : {"ChooseSwapExtent"}, capabilities : Capabilities,
          framebufferSize : Extents]
    \cup [fn : {"ChooseSwapPresentMode"},
          availablePresentModes : SeqsOf(PresentModes, 0, MaxModes)]
    \cup [fn : {"ChooseSwapSurfaceFormat"},
          availableFormats : SeqsOf(SurfaceFormats, 1, MaxFormats)]

FunctionsInit ==
    /\ InitApplication
    /\ call \in Calls
    /\ ret = <<>>

CallIsDeviceSuitable ==
    /\ call.fn = "IsDeviceSuitable"
    /\ ret = <<>>
    /\ ret' = <<IsDeviceSuitable(call.device)>>
    /\ UNCHANGED <<pc, caller, m_currentFrame, m_framebufferResized,
                   imageIndex, result, acquireResult, size, did, args,
                   m_swapChain, m_swapChainImages, m_swapChainExtent,
                   m_swapChainImageFormat, colorAttachmentFormat,
                   m_swapChainImageViews, m_swapChainFramebuffers,
                   m_commandBuffers, m_sync, m_objects, fences, sems, frames,
                   fbSize, resizePending, shouldClose, call>>

CallPickPhysicalDevice ==
    /\ call.fn = "PickPhysicalDevice"
    /\ ret = <<>>
    /\ ret' = <<PickPhysicalDevice(call.devices)>>
    /\ UNCHANGED <<pc, caller, m_currentFrame, m_framebufferResized,
                   imageIndex, result, acquireResult, size, did, args,
                   m_swapChain, m_swapChainImages, m_swapChainExtent,
                   m_swapChainImageFormat, colorAttachmentFormat,
                   m_swapChainImageViews, m_swapChainFramebuffers,
                   m_commandBuffers, m_sync, m_objects, fences, sems, frames,
                   fbSize, resizePending, shouldClose, call>>

CallImageCount ==
    /\ call.fn = "ImageCount"
    /\ ret = <<>>
    /\ ret' = <<ImageCount(call.capabilities.minImageCount,
                           call.capabilities.maxImageCount)>>
    /\ UNCHANGED <<pc, caller, m_currentFrame, m_framebufferResized,
                   imageIndex, result, acquireResult, size, did, args,
                   m_swapChain, m_swapChainImages, m_swapChainExtent,
                   m_swapChainImageFormat, colorAttachmentFormat,
                   m_swapChainImageViews, m_swapChainFramebuffers,
                   m_commandBuffers, m_sync, m_objects, fences, sems, frames,
                   fbSize, resizePending, shouldClose, call>>

CallChooseSwapExtent ==
    /\ call.fn = "ChooseSwapExtent"
    /\ ret = <<>>
    /\ ret' = <<ChooseSwapExtent(call.capabilities, call.framebufferSize)>>
    /\ UNCHANGED <<pc, caller, m_currentFrame, m_framebufferResized,
                   imageIndex, result, acquireResult, size, did, args,
                   m_swapChain, m_swapChainImages, m_swapChainExtent,
                   m_swapChainImageFormat, colorAttachmentFormat,
                   m_swapChainImageViews, m_swapChainFramebuffers,
                   m_commandBuffers, m_sync, m_objects, fences, sems, frames,
                   fbSize, resizePending, shouldClose, call>>

CallChooseSwapPresentMode ==
    /\ call.fn = "ChooseSwapPresentMode"
    /\ ret = <<>>
    /\ ret' = <<ChooseSwapPresentMode(call.availablePresentModes)>>
    /\ UNCHANGED <<pc, caller, m_currentFrame, m_framebufferResized,
                   imageIndex, result, acquireResult, size, did, args,
                   m_swapChain, m_swapChainImages, m_swapChainExtent,
                   m_swapChainImageFormat, colorAttachmentFormat,
                   m_swapChainImageViews, m_swapChainFramebuffers,
                   m_commandBuffers, m_sync, m_objects, fences, sems, frames,
                   fbSize, resizePending, shouldClose, call>>

CallChooseSwapSurfaceFormat ==
    /\ call.fn = "ChooseSwapSurfaceFormat"
    /\ ret = <<>>
    /\ ret' = <<ChooseSwapSurfaceFormat(call.availableFormats)>>
    /\ UNCHANGED <<pc, caller, m_currentFrame, m_framebufferResized,
                   imageIndex, result, acquireResult, size, did, args,
                   m_swapChain, m_swapChainImages, m_swapChainExtent,
                   m_swapChainImageFormat, colorAttachmentFormat,
                   m_swapChainImageViews, m_swapChainFramebuffers,
                   m_commandBuffers, m_sync, m_objects, fences, sems, frames,
                   fbSize, resizePending, shouldClose, call>>

FunctionsNext ==
    \/ CallIsDeviceSuitable
    \/ CallPickPhysicalDevice
    \/ CallImageCount
    \/ CallChooseSwapExtent
    \/ CallChooseSwapPresentMode
    \/ CallChooseSwapSurfaceFormat

FunctionsSpec == FunctionsInit /\ [][FunctionsNext]_vars
(***************************************************************************)
(* Properties                                                              *)
(***************************************************************************)
DrawingCalls == {"resetFence", "resetCb", "record", "submit", "present"}
Idle == gfxQueue = <<>> /\ presQueue = <<>> /\ acqPending = {}

\* C1: in every reachable state at most MAX_FRAMES_IN_FLIGHT frames are
\* submitted to the graphics queue with their fence not yet signaled: the
\* graphics queue holds at most that many incomplete submissions, and the
\* fence of each of them is unsignaled.
FramesInFlightBounded ==
    /\ Len(gfxQueue) <= MAX_FRAMES_IN_FLIGHT
    /\ \A k \in 1 .. Len(gfxQueue) : ~fences[gfxQueue[k].fence]

\* C1 witness: both slots have an incomplete submission and the thread is
\* held at the fence wait of the next iteration.
BothSlotsInFlight ==
    /\ Len(gfxQueue) = MAX_FRAMES_IN_FLIGHT
    /\ pc = "wait_fence"
    /\ ~fences[m_currentFrame]

StaleAcquire == acquireResult = "OUT_OF_DATE"

\* C2: when the acquisition of an iteration returned out of date, that
\* iteration resets no fence, resets and records no command buffer, submits
\* and presents nothing; it is inside RecreateSwapChain or has left DrawFrame,
\* and it has left DrawFrame only with the swapchain recreated.
StaleAcquireEndsIteration ==
    StaleAcquire =>
        /\ did \cap DrawingCalls = {}
        /\ pc \notin {"reset_fence", "reset_cb", "record", "submit", "present",
                      "check", "advance"}
        /\ (pc \in {"loop", "poll", "ml_idle"} => "recreate" \in did)

\* C2 witness: the iteration ended after a stale acquisition and recreation.
StaleIterationEnded == StaleAcquire /\ pc = "loop" /\ "recreate" \in did

\* C3: a command buffer is reset or recorded only while no submission of it
\* is incomplete.
PendingCommandBufferNeverTouched ==
    [][(pc = "reset_cb" /\ pc' = "record") \/ (pc = "record" /\ pc' = "submit")
          => ~Pending(imageIndex)]_vars

SwapchainResourceDestroyed ==
    \/ m_swapChain = "destroyed"
    \/ "destroyed" \in Range(m_swapChainImageViews)
    \/ "destroyed" \in Range(m_swapChainFramebuffers)

\* C4: while swapchain resources are being destroyed or re-created, and
\* whenever a destroyed one exists, no submission is incomplete, no
\* acquisition is unsignaled and no presentation request is queued.
SwapchainMutatedOnlyWhenIdle ==
    (\/ pc \in {"cs_fb", "cs_views", "cs_chain", "rc_create", "rc_views", "rc_fbs"}
     \/ SwapchainResourceDestroyed) => Idle

\* C4 witness: a recreation that followed a presentation has destroyed the
\* framebuffers.
RecreationDestroying ==
    /\ pc = "cs_views"
    /\ caller = "present"
    /\ "destroyed" \in Range(m_swapChainFramebuffers)

SyncObjectDestroyed == \E i \in Slots : m_sync[i] = "destroyed"

\* C5: the semaphores and fences of the slots are destroyed only in Cleanup,
\* after the main loop ended on the should-close flag and the device became
\* idle; while any of them is destroyed nothing is in flight.
SyncObjectsOutliveFrames ==
    /\ pc \in {"ml_idle", "cl_pipeline", "cl_sync", "cl_rest", "done"}
          => shouldClose
    /\ pc \in {"cl_pipeline", "cl_sync", "cl_rest", "done"} => Idle
    /\ SyncObjectDestroyed => pc \in {"cl_rest", "done"} /\ shouldClose /\ Idle

\* C5 witness: shutdown has destroyed the sync objects.
ShutdownDestroyedSync == pc = "cl_rest" /\ SyncObjectDestroyed

\* C6: every presentation request is followed by the test, and the test
\* starts a recreation exactly if the presentation result is out of date or
\* suboptimal or the resize flag is set, whatever the acquisition returned;
\* the flag is false when the recreation starts.
PostPresentRecreateIff ==
    [][/\ (pc = "present" /\ pc' # pc => pc' = "check")
       /\ (pc = "check" /\ pc' # pc =>
              /\ "present" \in did
              /\ acquireResult \in {"SUCCESS", "SUBOPTIMAL"}
              /\ (pc' = "rc_size") <=>
                     (result \in {"OUT_OF_DATE", "SUBOPTIMAL"} \/ m_framebufferResized)
              /\ (pc' = "rc_size" => ~m_framebufferResized'))]_vars

\* C6 witness: the test is reached after a suboptimal acquisition with a
\* suboptimal presentation result and the flag unset.
SuboptimalPresentAtTest ==
    /\ pc = "check"
    /\ acquireResult = "SUBOPTIMAL"
    /\ result = "SUBOPTIMAL"
    /\ ~m_framebufferResized

\* C7: the resize callback sets the flag whenever a size event is
\* processed; the flag is cleared only by the post-present test, in the step
\* that starts a recreation; and no post-present test passes with the flag set
\* without starting a recreation.
ResizeIntentNeverMissed ==
    [][/\ (resizePending /\ ~resizePending' => m_framebufferResized')
       /\ (m_framebufferResized /\ ~m_framebufferResized'
              => pc = "check" /\ pc' = "rc_size")
       /\ (pc = "check" /\ pc' # pc /\ m_framebufferResized
              => pc' = "rc_size")]_vars

\* C7 witness: the callback fired during the event wait inside a recreation
\* that a presentation started, and the recreation goes on.
ResizeDuringRecreation ==
    /\ pc = "rc_idle"
    /\ caller = "present"
    /\ m_framebufferResized

\* C8 as amended: a suboptimal acquisition goes on to the fence reset like a
\* successful one and reaches the post-present test with every drawing call
\* made; there a recreation starts exactly if the presentation result is out
\* of date or suboptimal or the resize flag is set.
SuboptimalAcquireProceeds ==
    [][/\ (pc = "acquire" /\ acquireResult' = "SUBOPTIMAL" => pc' = "reset_fence")
       /\ (pc = "check" /\ pc' # pc /\ acquireResult = "SUBOPTIMAL" =>
              /\ DrawingCalls \subseteq did
              /\ (pc' = "rc_size") <=>
                     (result \in {"OUT_OF_DATE", "SUBOPTIMAL"} \/ m_framebufferResized))]_vars

\* C8 witness: after a suboptimal acquisition the presentation returned
\* success and the flag is unset.
SuboptimalAcquireSuccessfulPresent ==
    /\ pc = "check"
    /\ acquireResult = "SUBOPTIMAL"
    /\ result = "SUCCESS"
    /\ ~m_framebufferResized

\* C8 as claimed: after a suboptimal acquisition the post-present test of
\* that iteration always starts a recreation.
SuboptimalAcquireRemembered ==
    [][pc = "check" /\ pc' # pc /\ acquireResult = "SUBOPTIMAL"
          => pc' = "rc_size"]_vars

\* The semaphores and the fence each call of a frame of slot i names are
\* those of slot i.
SlotWiring ==
    \A k \in 1 .. Len(frames) :
        LET f == frames[k]
        IN  /\ f.acqSem = ImageAvailable(f.slot)
            /\ f.sub = "queued" =>
                  /\ f.wait = ImageAvailable(f.slot)
                  /\ f.signal = RenderFinished(f.slot)
                  /\ f.fence = f.slot
            /\ f.pres = "queued" => f.presWait = RenderFinished(f.slot)
            /\ f.pres # "none" => f.sub # "none"

\* C9: every frame of slot i is acquired with the image-available semaphore
\* of slot i, submitted to wait on that semaphore and to signal the
\* render-finished semaphore and the fence of slot i, and presented to wait
\* on the render-finished semaphore of slot i; it is submitted after it is
\* acquired and presented after it is submitted; its submission executes
\* only after its acquisition signaled, and its presentation only after its
\* submission completed.
FrameOrdering ==
    /\ [](SlotWiring)
    /\ [][/\ (Len(gfxQueue') < Len(gfxQueue) => Head(gfxQueue).acquired)
          /\ (Len(presQueue') < Len(presQueue) => Head(presQueue).sub = "done")
          /\ (pc = "submit" /\ pc' = "present" => "acquire" \in did)
          /\ (pc = "present" /\ pc' = "check" => "submit" \in did)]_vars

\* C10: a fence becomes unsignaled only by vkResetFences of the current
\* slot, and vkResetFences acts only on a signaled fence of a slot without an
\* incomplete submission, after the fence wait and after an acquisition of
\* the same iteration that returned success or suboptimal.
FenceResetOnlyWhenSignaled ==
    [][/\ \A i \in Slots :
             fences[i] /\ ~fences'[i]
                => pc = "reset_fence" /\ pc' = "reset_cb" /\ i = m_currentFrame
       /\ (pc = "reset_fence" /\ pc' = "reset_cb" =>
              /\ fences[m_currentFrame]
              /\ \A k \in 1 .. Len(gfxQueue) : gfxQueue[k].fence # m_currentFrame
              /\ {"wait", "acquire"} \subseteq did
              /\ acquireResult \in {"SUCCESS", "SUBOPTIMAL"})]_vars

\* C10 witness: the fence of the slot was reset after a suboptimal acquisition.
FenceResetAfterSuboptimal ==
    /\ pc = "reset_cb"
    /\ ~fences[m_currentFrame]
    /\ acquireResult = "SUBOPTIMAL"
\* The frames whose image the program holds: acquired by the program and
\* not yet handed to vkQueuePresentKHR.
HeldFrames == {k \in 1 .. Len(frames) : frames[k].pres = "none"}

\* C11: the image of a successful or suboptimal acquisition is handed to
\* vkQueuePresentKHR in the same iteration unless the process ends first: at
\* most one frame is acquired and not yet presented, it is the newest one
\* and the iteration that acquired it is still between acquisition and
\* presentation; imageIndex is not changed on the way, and none is held
\* when the next acquisition is made.
AcquiredImagePresented ==
    /\ [](/\ Cardinality(HeldFrames) <= 1
          /\ HeldFrames \subseteq {Len(frames)}
          /\ HeldFrames # {} =>
                pc \in {"reset_fence", "reset_cb", "record", "submit", "present",
                        "fatal", "crashed"}
          /\ pc = "acquire" => HeldFrames = {})
    /\ [][/\ (pc \in {"reset_fence", "reset_cb", "record", "submit", "present"}
                 => imageIndex' = imageIndex)
          /\ (pc = "present" /\ pc' # pc
                 => pc' = "check" /\ HeldFrames # {} /\ HeldFrames' = {})]_vars

\* C11 witness: the image of the iteration has just been handed to the
\* presentation while the frame of the iteration before is still in flight.
ImageHandedToPresent ==
    /\ pc = "check"
    /\ Len(frames) = 2
    /\ frames[2].pres = "queued"
    /\ frames[2].slot = m_currentFrame
    /\ frames[1].slot # m_currentFrame

\* Exactly the resources of one chain are live: the swapchain, and one view
\* and one framebuffer for each of its images.
OneChainPerImage ==
    /\ m_swapChain = "live"
    /\ m_swapChainImageViews = Fill(m_swapChainImages, "live")
    /\ m_swapChainFramebuffers = Fill(m_swapChainImages, "live")

\* C12: when RecreateSwapChain creates the new swapchain, the old handle and
\* every old view and framebuffer are destroyed; no live view or framebuffer
\* is overwritten by a new one; and whenever the program is in the main loop,
\* before or after any number of recreations, exactly one swapchain is live
\* with one live view and one live framebuffer per image.
RecreationReleasesBeforeCreating ==
    /\ pc = "rc_create" => m_swapChain = "destroyed"
    /\ pc \in {"rc_create", "rc_views"} =>
          "live" \notin Range(m_swapChainImageViews)
    /\ pc \in {"rc_create", "rc_views", "rc_fbs"} =>
          "live" \notin Range(m_swapChainFramebuffers)
    /\ pc \in {"loop", "poll", "wait_fence", "acquire", "reset_fence", "reset_cb",
               "record", "submit", "present", "check", "advance", "rc_size",
               "rc_size2", "rc_wait", "rc_idle", "ml_idle"} => OneChainPerImage

\* C12 witness: a recreation has completed with fewer images than the chain
\* created at initialization had.
RecreatedWithFewerImages ==
    /\ pc = "advance"
    /\ "recreate" \in did
    /\ OneChainPerImage
    /\ m_swapChainImages < Len(m_commandBuffers)

\* The controlling thread is inside RecreateSwapChain.
InRecreateSwapChain ==
    /\ caller \in {"acquire", "present"}
    /\ pc \notin {"loop", "poll", "wait_fence", "acquire", "reset_fence",
                  "reset_cb", "record", "submit", "present", "check", "advance",
                  "ml_idle", "done", "fatal", "crashed"}

\* C13: no step of RecreateSwapChain changes the render pass, the pipeline
\* layout, the pipeline, the command pool or any other long-lived object,
\* the command buffers, the semaphores and fences of the slots (neither the
\* objects nor, by the thread, their state) or m_currentFrame.
RecreateLeavesLongLivedObjects ==
    [][InRecreateSwapChain /\ pc' # pc =>
           /\ UNCHANGED <<m_objects, m_commandBuffers, m_sync, m_currentFrame>>
           /\ UNCHANGED <<fences, sems, frames>>]_vars

\* C13 witness: a recreation is about to return with a chain of another
\* image count, the long-lived objects and the command buffers all live.
RecreatedAmongLiveObjects ==
    /\ pc = "rc_fbs"
    /\ caller = "acquire"
    /\ m_swapChainImages # Len(m_commandBuffers)
    /\ \A o \in LongLived : m_objects[o] = "live"
    /\ \A i \in Slots : m_sync[i] = "live"
    /\ m_currentFrame = 1

\* C14: after initialization there is one command buffer per image of the
\* current swapchain, also after recreations, and the image index of an
\* acquisition is a valid index of m_commandBuffers and of
\* m_swapChainFramebuffers.
CommandBufferPerImage ==
    /\ pc \notin {"init", "fatal", "crashed", "cs_fb", "cs_views", "cs_chain",
                  "rc_create", "rc_views", "rc_fbs"}
          => Len(m_commandBuffers) = m_swapChainImages
    /\ pc \in {"reset_fence", "reset_cb", "record", "submit"} =>
          /\ imageIndex < Len(m_commandBuffers)
          /\ imageIndex < Len(m_swapChainFramebuffers)

\* C15: inside RecreateSwapChain the device wait, the destruction and the
\* creation happen only with the size read last non-zero in both
\* dimensions; after a read of a size with a zero component, at entry or in
\* the loop, the thread goes on to read again and wait for window events.
RecreateWaitsForNonZeroSize ==
    /\ [](InRecreateSwapChain /\ pc \notin {"rc_size", "rc_size2", "rc_wait"}
             => size[1] # 0 /\ size[2] # 0)
    /\ [][/\ (pc = "rc_size" /\ pc' # pc /\ (size'[1] = 0 \/ size'[2] = 0)
                 => pc' = "rc_size2")
          /\ (pc = "rc_size2" /\ pc' # pc => pc' = "rc_wait")
          /\ (pc = "rc_wait" /\ pc' # pc /\ (size[1] = 0 \/ size[2] = 0)
                 => pc' = "rc_size2")]_vars

\* C15 witness: the thread left the event wait, in which the callback fired,
\* with the restored size read.
LeftWaitWithRestoredSize ==
    /\ pc = "rc_idle"
    /\ caller = "present"
    /\ m_framebufferResized
    /\ size = <<WIDTH, HEIGHT>>
    /\ fbSize = size

\* C16: when RecreateSwapChain creates the new swapchain, the framebuffer
\* size of the window is non-zero in both dimensions, however the window
\* was resized during RecreateSwapChain.
NoZeroExtentChain ==
    [][pc = "rc_create" /\ pc' = "rc_views" => fbSize[1] # 0 /\ fbSize[2] # 0]_vars

\* C17: RecreateSwapChain leaves its wait once the window is restored: when
\* the thread sleeps in glfwWaitEvents of the loop with the window restored
\* to WIDTH x HEIGHT and no close request made, the size event that wakes it
\* is pending (with no event pending and none to come it sleeps forever).
RestoredWindowLeavesWait ==
    (pc = "rc_wait" /\ fbSize = <<WIDTH, HEIGHT>> /\ ~shouldClose)
        => resizePending

\* The iteration before this one completed a recreation and the surface is
\* still the one the chain was created for.
AfterRecreateSurfaceUnchanged ==
    "afterRecreate" \in did /\ ChainMatchesSurface

\* C18: in the iteration after a completed recreation, the surface unchanged,
\* the acquisition does not take the stale path, and the iteration goes
\* through fence reset, command buffer reset and record to submit and
\* present without an exception of its own (a failing Vulkan call aside).
IterationAfterRecreateSucceeds ==
    [][AfterRecreateSurfaceUnchanged =>
           /\ (pc = "acquire" => pc' # "rc_size")
           /\ (pc = "reset_fence" /\ pc' # pc => pc' = "reset_cb")
           /\ (pc = "reset_cb" /\ pc' # pc => pc' = "record")]_vars

\* C19: when an exception has ended the session, no resource that was
\* created is left unreleased: the window, instance, surface, device,
\* render pass, pipeline layout, pipeline and command pool, the swapchain
\* with its views and framebuffers, and the sync objects.
FatalReleasesResources ==
    pc = "fatal" =>
        /\ \A o \in LongLived : m_objects[o] # "live"
        /\ m_swapChain # "live"
        /\ "live" \notin Range(m_swapChainImageViews)
        /\ "live" \notin Range(m_swapChainFramebuffers)
        /\ \A i \in Slots : m_sync[i] # "live"

\* C20: an out-of-date or suboptimal result is never answered with an
\* exception: after the acquisition it leads into RecreateSwapChain (out of
\* date) or on to the fence reset (suboptimal), after the presentation into
\* RecreateSwapChain; and a recreation that completes returns into the main
\* loop, directly or through the slot update.
TransientResultsNeverFatal ==
    [][/\ (pc = "acquire" /\ acquireResult' = "OUT_OF_DATE" => pc' = "rc_size")
       /\ (pc = "acquire" /\ acquireResult' = "SUBOPTIMAL" => pc' = "reset_fence")
       /\ (pc = "check" /\ pc' # pc /\ result \in {"OUT_OF_DATE", "SUBOPTIMAL"}
              => pc' = "rc_size")
       /\ (pc = "rc_fbs" /\ "recreate" \in did' => pc' \in {"loop", "advance"})
       /\ (pc = "advance" /\ pc' # pc => pc' = "loop")]_vars

\* C20 witness: the main loop went on after a recreation, and the frame goes
\* on after a suboptimal acquisition.
FrameGoesOnAfterSuboptimal ==
    /\ pc = "reset_fence"
    /\ acquireResult = "SUBOPTIMAL"
    /\ "afterRecreate" \in did

\* C21: a failure ends the iteration where it happens and is fatal: an
\* acquisition result other than success, suboptimal and out of date, a
\* failed recording, a failed submission and a presentation result other
\* than success, suboptimal and out of date each lead to the exception, with
\* none of the later calls of the iteration made; after the exception the
\* thread takes no further step.
FailuresAreFatal ==
    [][/\ (pc = "acquire" /\ pc' # pc /\ result' = "ERROR" => pc' = "fatal")
       /\ (pc = "record" /\ pc' # pc /\ "record" \notin did' => pc' = "fatal")
       /\ (pc = "submit" /\ pc' # pc /\ "submit" \notin did' => pc' = "fatal")
       /\ (pc = "check" /\ pc' # pc /\ result = "ERROR" => pc' = "fatal")
       /\ (pc = "fatal" => pc' = "fatal" /\ did' = did)]_vars

\* C22: a second call of CleanupSwapChain right after the first destroys
\* nothing again: no destroy call is made for a framebuffer, an image view
\* or a swapchain that is destroyed already.
CleanupSwapChainIdempotent ==
    [][pc = "twice_1" /\ pc' # pc => ~DoubleDestroy /\ pc' = "twice_2"]_vars

\* C23: CleanupSwapChain destroys the framebuffers, then the image views,
\* then the swapchain: while an image view is destroyed no framebuffer is
\* live, while the swapchain is destroyed no image view is live, and the
\* steps of CleanupSwapChain follow each other in this order.
CleanupInDependencyOrder ==
    /\ []("destroyed" \in Range(m_swapChainImageViews)
             => "live" \notin Range(m_swapChainFramebuffers))
    /\ [](m_swapChain = "destroyed" => "live" \notin Range(m_swapChainImageViews))
    /\ [][/\ (pc = "cs_fb" /\ pc' # pc =>
                 pc' = "cs_views" /\ UNCHANGED <<m_swapChainImageViews, m_swapChain>>)
          /\ (pc = "cs_views" /\ pc' # pc =>
                 pc' = "cs_chain" /\ UNCHANGED <<m_swapChainFramebuffers, m_swapChain>>)
          /\ (pc = "cs_chain" /\ pc' # pc =>
                 UNCHANGED <<m_swapChainFramebuffers, m_swapChainImageViews>>)]_vars

\* C23 witness: at shutdown the framebuffers and views of a two-image chain
\* are destroyed and the swapchain is still to be destroyed.
ShutdownViewsDestroyedChainLive ==
    /\ pc = "cs_chain"
    /\ caller = "cleanup"
    /\ m_swapChain = "live"
    /\ m_swapChainImageViews = <<"destroyed", "destroyed">>
    /\ m_swapChainFramebuffers = <<"destroyed", "destroyed">>

\* The thread cannot take its next step: it is blocked in a call.
Blocked == ~Terminated /\ ~ENABLED ThreadStep

Returned(fn) == call.fn = fn /\ ret # <<>>

\* Some queue family of the device has the capability ("graphics" or
\* "present").
HasFamily(device, capability) ==
    \E i \in 1 .. Len(device.queueFamilies) :
        device.queueFamilies[i][capability]

\* The four conditions of eligibility.
Eligible(device) ==
    /\ HasFamily(device, "graphics")
    /\ HasFamily(device, "present")
    /\ g_deviceExtensions \subseteq device.extensions
    /\ device.formats # <<>> /\ device.presentModes # <<>>

\* C25: IsDeviceSuitable returns true for a device if and only if the device
\* has a graphics queue family, a queue family presenting to the surface,
\* every required extension, and a non-empty set of surface formats and of
\* present modes, whatever the order of its queue families.
SuitableIffEligible ==
    Returned("IsDeviceSuitable") => (ret[1] <=> Eligible(call.device))

\* Accepted: a device whose first family only presents and whose second
\* family only draws.
SuitableWithFamiliesInEitherOrder ==
    /\ Returned("IsDeviceSuitable")
    /\ ret[1]
    /\ call.device.queueFamilies =
           <<[graphics |-> FALSE, present |-> TRUE],
             [graphics |-> TRUE, present |-> FALSE]>>

\* The positions of the eligible devices in an enumeration.
EligibleDevices(devices) ==
    {i \in 1 .. Len(devices) : Eligible(devices[i])}

\* C26: PickPhysicalDevice leaves in m_physicalDevice the first eligible
\* device of the enumeration, throws if and only if the enumeration is empty
\* or holds no eligible device, and creates no object of the application.
PicksFirstEligible ==
    Returned("PickPhysicalDevice") =>
        LET eligible == EligibleDevices(call.devices)
        IN  /\ (ret[1].thrown # "") <=> (eligible = {})
            /\ eligible # {} =>
                   /\ ret[1].m_physicalDevice \in eligible
                   /\ \A i \in eligible : ret[1].m_physicalDevice <= i
            /\ \A o \in LongLived : m_objects[o] = "null"
            /\ m_swapChain = "null"

\* Three devices, the second and the third eligible: the second is picked.
SecondPickedThirdEligible ==
    /\ Returned("PickPhysicalDevice")
    /\ EligibleDevices(call.devices) = {2, 3}
    /\ ret[1].m_physicalDevice = 2
    /\ ret[1].thrown = ""

\* The smaller of two numbers.
Min(a, b) == IF a <= b THEN a ELSE b

\* C27: the image count requested at swap chain creation is
\* min(minImageCount + 1, maxImageCount) when maxImageCount > 0 and
\* minImageCount + 1 when maxImageCount = 0; it is at least minImageCount,
\* at most a maxImageCount other than 0, and 3 for the bounds 2 and 3.
ImageCountWithinBounds ==
    Returned("ImageCount") =>
        LET lo == call.capabilities.minImageCount
            hi == call.capabilities.maxImageCount
        IN  /\ ret[1] = IF hi > 0 THEN Min(lo + 1, hi) ELSE lo + 1
            /\ ret[1] >= lo
            /\ hi > 0 => ret[1] <= hi
            /\ (lo = 2 /\ hi = 3) => ret[1] = 3

\* The bound decides: minImageCount = maxImageCount = 2 asks for 2 images.
ImageCountCappedByMaximum ==
    /\ Returned("ImageCount")
    /\ call.capabilities = [minImageCount |-> 2, maxImageCount |-> 2]
    /\ ret[1] = 2

\* The larger of two numbers.
Max(a, b) == IF a >= b THEN a ELSE b

\* C28: ChooseSwapExtent returns currentExtent unless it is the sentinel;
\* for the sentinel it returns the window's framebuffer size brought into
\* [minImageExtent, maxImageExtent] in each dimension separately.
ExtentCurrentOrClamped ==
    Returned("ChooseSwapExtent") =>
        LET c == call.capabilities
            fb == call.framebufferSize
        IN  IF c.currentExtent # UndefinedExtent
            THEN ret[1] = c.currentExtent
            ELSE /\ ret[1].width =
                        Max(c.minImageExtent.width,
                            Min(fb.width, c.maxImageExtent.width))
                 /\ ret[1].height =
                        Max(c.minImageExtent.height,
                            Min(fb.height, c.maxImageExtent.height))
                 /\ c.minImageExtent.width <= ret[1].width
                 /\ ret[1].width <= c.maxImageExtent.width
                 /\ c.minImageExtent.height <= ret[1].height
                 /\ ret[1].height <= c.maxImageExtent.height

\* The sentinel is reported, the framebuffer is wider than allowed and lower
\* than required: the width comes down, the height goes up.
ExtentClampedBothWays ==
    /\ Returned("ChooseSwapExtent")
    /\ call.capabilities.currentExtent = UndefinedExtent
    /\ call.framebufferSize.width > call.capabilities.maxImageExtent.width
    /\ call.framebufferSize.height < call.capabilities.minImageExtent.height
    /\ ret[1].width = call.capabilities.maxImageExtent.width
    /\ ret[1].height = call.capabilities.minImageExtent.height

\* C29: ChooseSwapPresentMode returns MAILBOX when the list holds MAILBOX
\* anywhere; without MAILBOX it returns IMMEDIATE when the list holds it,
\* and FIFO otherwise.
PresentModeByPreference ==
    Returned("ChooseSwapPresentMode") =>
        LET offered == {call.availablePresentModes[i] :
                            i \in 1 .. Len(call.availablePresentModes)}
        IN  ret[1] = IF "MAILBOX" \in offered THEN "MAILBOX"
                     ELSE IF "IMMEDIATE" \in offered THEN "IMMEDIATE"
                     ELSE "FIFO"

\* MAILBOX is chosen though IMMEDIATE stands before it in the list.
MailboxChosenAfterImmediate ==
    /\ Returned("ChooseSwapPresentMode")
    /\ call.availablePresentModes = <<"FIFO", "IMMEDIATE", "MAILBOX">>
    /\ ret[1] = "MAILBOX"

\* C30: ChooseSwapSurfaceFormat returns (B8G8R8A8_UNORM, SRGB_NONLINEAR)
\* when the list holds it at any position and when the list is one entry of
\* undefined format; otherwise it returns the first entry of the list.
SurfaceFormatByPreference ==
    Returned("ChooseSwapSurfaceFormat") =>
        LET formats == call.availableFormats
            offered == {formats[i] : i \in 1 .. Len(formats)}
        IN  ret[1] = IF PreferredFormat \in offered THEN PreferredFormat
                     ELSE IF Len(formats) = 1 /\ formats[1].format = "UNDEFINED"
                     THEN PreferredFormat
                     ELSE formats[1]

\* The preferred format is found behind another one.
PreferredFormatFoundLater ==
    /\ Returned("ChooseSwapSurfaceFormat")
    /\ Len(call.availableFormats) >= 2
    /\ call.availableFormats[1] # PreferredFormat
    /\ call.availableFormats[2] = PreferredFormat
    /\ ret[1] = PreferredFormat

(***************************************************************************)
(* The slot index, the indices used within an iteration, the recorded      *)
(* commands, progress of the admission wait, the semaphores, the resize    *)
(* flag on the stale path, and the image format.                           *)
(***************************************************************************)

\* The slot after slot i.
NextSlot(i) == (i + 1) % MAX_FRAMES_IN_FLIGHT

\* A step changes the slot only at the end of an iteration that requested
\* presentation, and an iteration ends on the next slot exactly then.
SlotStep ==
    /\ m_currentFrame' # m_currentFrame =>
           /\ pc = "advance" /\ pc' = "loop"
           /\ "present" \in did
    /\ (pc # "loop" /\ pc' = "loop") =>
           m_currentFrame' = IF "present" \in did
                             THEN NextSlot(m_currentFrame)
                             ELSE m_currentFrame

\* C31: m_currentFrame is always one of 0 .. K-1; it changes only in the
\* step that ends a DrawFrame iteration which requested presentation, and
\* then to the next slot modulo K (also after a post-present recreation);
\* an iteration ended by the stale-acquire path leaves it as it is.
SlotAdvancesOncePerPresentedFrame ==
    [](m_currentFrame \in Slots) /\ [][SlotStep]_vars

\* An iteration that presented and then recreated has ended on slot 1.
SlotAdvancedAfterPostPresentRecreate ==
    /\ pc = "loop"
    /\ {"present", "recreate"} \subseteq did
    /\ caller = "present"
    /\ m_currentFrame = 1

\* The framebuffer the recorded render pass begins on.
RecordedFramebuffer == args.commands[2][2]

\* C32: in an iteration that records, the command buffer reset, recorded and
\* submitted is the one at the acquired image index, the render pass is
\* recorded on the live framebuffer at that index, and the image presented
\* has that index; none of them is chosen by the slot.
IndicesFollowAcquiredImage ==
    /\ args.resetCb # NoIndex => args.resetCb = imageIndex
    /\ args.recordCb # NoIndex =>
           /\ args.recordCb = imageIndex
           /\ RecordedFramebuffer = imageIndex
           /\ m_swapChainFramebuffers[RecordedFramebuffer + 1] = "live"
    /\ args.submitCb # NoIndex => args.submitCb = imageIndex
    /\ args.presentImage # NoIndex => args.presentImage = imageIndex

\* Image 1 was acquired on slot 0 and went through all the calls.
ImageOneOnSlotZeroPresented ==
    /\ pc = "check"
    /\ m_currentFrame = 0
    /\ imageIndex = 1
    /\ args.resetCb = 1 /\ args.recordCb = 1 /\ args.submitCb = 1
    /\ RecordedFramebuffer = 1
    /\ args.presentImage = 1

\* The commands of one recording on a framebuffer with an extent.
ExpectedCommands(framebuffer, extent) ==
    << <<"vkBeginCommandBuffer">>,
       <<"vkCmdBeginRenderPass", framebuffer, extent>>,
       <<"vkCmdBindPipeline">>,
       <<"vkCmdSetViewport", extent>>,
       <<"vkCmdSetScissor", extent>>,
       <<"vkCmdDraw", 3, 1, 0, 0>>,
       <<"vkCmdEndRenderPass">>,
       <<"vkEndCommandBuffer">> >>

\* A recording starts on the command buffer that was just reset, and the
\* commands submitted are the expected ones for the extent of the chain at
\* the time of submission.
RecordStep ==
    /\ (pc = "record" /\ pc' = "submit") =>
           /\ "resetCb" \in did
           /\ args'.recordCb = args.resetCb
    /\ (pc = "submit" /\ pc' = "present") =>
           args.commands =
               ExpectedCommands(RecordedFramebuffer, m_swapChainExtent)

\* C33: every recording directly follows a reset of the same command buffer
\* and consists of begin, begin render pass on the given framebuffer, bind
\* pipeline, set viewport, set scissor, draw of 3 vertices and 1 instance,
\* end render pass, end; viewport, scissor and render area are the extent of
\* the swapchain current at submission, also right after a recreation.
RecordingIsResetThenFixedCommands ==
    /\ [](pc = "record" => "resetCb" \in did /\ args.resetCb = imageIndex)
    /\ [][RecordStep]_vars

\* The first iteration after a recreation has submitted its recording.
RecordedAfterRecreate ==
    /\ pc = "present"
    /\ "afterRecreate" \in did
    /\ "submit" \in did
    /\ args.commands[4] = <<"vkCmdSetViewport", m_swapChainExtent>>
    /\ m_swapChainExtent = <<WIDTH, HEIGHT>>

\* A queued submission will signal the fence of slot i.
SubmissionPending(i) == \E f \in Range(gfxQueue) : f.fence = i

\* The controlling thread is in the admission wait of DrawFrame.
InAdmissionWait == pc = "wait_fence"

SignalOutstanding(s) ==
    \/ sems[s]
    \/ \E f \in Range(frames) :
          \/ f.acqSem = s /\ ~f.acquired
          \/ f.sub = "queued" /\ (f.signal = s \/ f.wait = s)
          \/ f.pres = "queued" /\ f.presWait = s

\* An acquisition that hands out an image, and a submission, are made with
\* a semaphore to signal that has no signal outstanding.
SemaphoreStep ==
    /\ (pc = "acquire" /\ pc' = "reset_fence") =>
           ~SignalOutstanding(AcquireSemaphore(m_currentFrame))
    /\ (pc = "submit" /\ pc' = "present") =>
           ~SignalOutstanding(SubmitSignalSemaphore(m_currentFrame))

\* C35: each binary semaphore of a slot alternates signal and wait: no
\* acquisition and no submission is made that signals a semaphore whose
\* previous signal has not been consumed by the submission or presentation
\* waiting on it.
SemaphoresAlternate == [][SemaphoreStep]_vars

\* The resize flag is cleared only by the post-present check, never between
\* a stale acquisition and the end of its iteration, and a post-present
\* check that finds the flag set starts a recreation.
ResizeFlagStep ==
    /\ (m_framebufferResized /\ ~m_framebufferResized') => pc = "check"
    /\ (caller = "acquire" /\ m_framebufferResized) => m_framebufferResized'
    /\ (pc = "check" /\ m_framebufferResized /\ pc' # pc) =>
           /\ pc' = "rc_size"
           /\ caller' = "present"

\* C36: the stale-acquire path leaves the resize flag as it is: a flag set
\* before an iteration whose acquisition was stale is still set after the
\* recreation of that iteration, and the next iteration that reaches the
\* post-present check recreates the swapchain a second time.
StalePathKeepsResizeFlag == [][ResizeFlagStep]_vars

\* The iteration ended through the stale-acquire path with the flag set.
StaleIterationEndedWithFlagSet ==
    /\ pc = "loop"
    /\ caller = "acquire"
    /\ "recreate" \in did
    /\ m_framebufferResized

\* C37: whenever the render pass and a swapchain both exist, the image
\* format of the current swapchain equals the attachment format the render
\* pass was created with, so the framebuffers built for the chain are
\* compatible with the render pass.
SwapchainFormatMatchesRenderPass ==
    (m_objects["renderPass"] = "live" /\ m_swapChain = "live") =>
        m_swapChainImageFormat = colorAttachmentFormat
====
